---- MODULE Spec2Model ----
(***************************************************************************)
(* Daily emotion estimation and scoring (empathy.py, ml_empathy.py,        *)
(* peak_value_estimator.py, data_handler.py, ruiseki.py), the page views   *)
(* of the dashboard (app.py) and the estimate of their missing durations   *)
(* (analyze_access_logs.py).                                               *)
(*                                                                         *)
(* Numbers.  A valence is held in tenths (4.5 is 45, 5.6 is 56), a cluster *)
(* weight in tenths (-0.3 is -3), and a mean as the exact fraction         *)
(* [num, den] of tenths, so that "mean <= 4.5" is num <= 45 * den.  On the *)
(* valences and day lengths of this model the IEEE doubles of the code     *)
(* order, tie and compare with the thresholds exactly as these exact       *)
(* values do.                                                              *)
(*                                                                         *)
(* Cluster labels.  A label is the sequence of its words, so that the      *)
(* code's substring test  'marker' in cluster  is a search of the label:   *)
(*   "tsuyoi" = strong, "yowai" = weak, "yori-chuuritsu" = leaning neutral,*)
(*   "negatibu" = the negative marker, "pojitibu" = the positive marker.   *)
(***************************************************************************)
EXTENDS Integers, Sequences, FiniteSets, TLC

VARIABLES
    day_df,       \* one day's frame: the rows handed to the strategies
    has_cluster,  \* the fetched documents carry a 'cluster' field
    call,         \* what has been applied to day_df
    result,       \* the result row of analyze_emotions_by_day for the day
    valence,      \* the argument of the classifier functions
    ret,          \* what the classifier function applied to valence returned
    training_df,  \* ml_empathy.py: the samples of prepare_training_data
    ml_pc,        \* where train_and_evaluate stands
    fold,         \* the leave-one-out fold last run, and what it produced
    scores_list,  \* ml_empathy.py: the scored folds, as the report reads them
    scores,       \* the questionnaire scores of one (subject, day)
    labels,       \* the category sets the two evaluators derive from scores
    docs,         \* the documents streamed from the user's collection
    fetched,      \* which fetch function has turned docs into a frame
    files,        \* which of ex_date.csv and questionnaire.csv exist
    lookup,       \* the outcome of the lookup of the (subject, day) at hand
    report,       \* the score ratios the evaluator has reported
    acc_pc,       \* where calculate_accuracy stands
    cursor,       \* calculate_accuracy: the questionnaire row and day at hand
    comparison_results,  \* calculate_accuracy: the scored (subject, day) rows
    firebase_apps,   \* firebase_admin._apps: the names of the registered apps
    firebase_calls,  \* what every call that connects did and returned
    session_state,   \* app.py: st.session_state of the dashboard session
    page_views,      \* app.py: the user's page_views collection
    access_logs,     \* app.py: the number of access_logs documents
    clock,           \* app.py: what datetime.now() returned last
    selected_view,   \* app.py: the view mode selected in the last run
    write_failed,    \* app.py: a write of a page view has raised
    page_view_df,    \* analyze_access_logs.py: the fetched page views
    estimated_df        \* what estimate_missing_durations returned

stratVars == <<day_df, has_cluster, call, result>>
clsVars == <<valence, ret>>
mlVars == <<training_df, ml_pc, fold, scores_list>>
scoreVars == <<scores, labels>>
fetchVars == <<docs, fetched>>
loopVars == <<files, lookup, report>>
accVars == <<acc_pc, cursor, comparison_results>>
firebaseVars == <<firebase_apps, firebase_calls>>
pageVars == <<session_state, page_views, access_logs, clock, selected_view,
              write_failed>>
durVars == <<page_view_df, estimated_df>>
appVars == <<firebaseVars, pageVars, durVars>>
vars == <<stratVars, clsVars, mlVars, scoreVars, fetchVars, loopVars, accVars,
          appVars>>

-----------------------------------------------------------------------------
(* Bounds of the model *)

MaxLen == 3
MaxHundredths == 1000
MaxSamples == 3
NTrees == 2
DaysPerSubject == 2
MaxScore == 4
MaxRows == 2
MaxCalls == 3
MaxReruns == 3
MaxViews == 3

Valences == {30, 45, 46, 56, 66, 80}
Times == {0, 1, 2}
StoredValences == {30, 80}
StoredTimes == {0}

NoValue == "-"
Categories == {"Negative", "Neutral", "Positive"}

NEG == "negatibu"
POS == "pojitibu"

\* the labels of documents that carry a 'cluster' field: two of empathy.py's
\* names, a name as the dashboard writes it (data_handler.py, no ordinal
\* prefix) and a label with neither marker
StoredClusters ==
    { <<"1-", "tsuyoi", NEG>>, <<"5-", "yowai", POS>>,
      <<NEG, "yori-chuuritsu">>, <<"chuuritsu">> }

-----------------------------------------------------------------------------
(* Arithmetic helpers *)

Abs(x) == IF x < 0 THEN -x ELSE x

Max3(a, b, c) == IF a >= b /\ a >= c THEN a ELSE IF b >= c THEN b ELSE c

Min3(a, b, c) == IF a <= b /\ a <= c THEN a ELSE IF b <= c THEN b ELSE c

RECURSIVE SumSeq(_)
SumSeq(s) == IF s = <<>> THEN 0 ELSE Head(s) + SumSeq(Tail(s))

RECURSIVE SeqMax(_)
SeqMax(s) ==
    IF Len(s) = 1 THEN s[1]
    ELSE LET m == SeqMax(Tail(s)) IN IF s[1] >= m THEN s[1] ELSE m

RECURSIVE SeqMin(_)
SeqMin(s) ==
    IF Len(s) = 1 THEN s[1]
    ELSE LET m == SeqMin(Tail(s)) IN IF s[1] <= m THEN s[1] ELSE m

\* pandas Series.idxmax: the label of the first occurrence of the maximum
idxmax(s) == CHOOSE i \in DOMAIN s : s[i] = SeqMax(s) /\ \A j \in 1..(i - 1) : s[j] < s[i]

Column(df, name) == [i \in DOMAIN df |-> df[i][name]]

\* an exact number num/den of tenths
Q(num, den) == [num |-> num, den |-> den]

\* x <= k/10 for a fraction x of tenths
LE(x, k) == x.num <= k * x.den

-----------------------------------------------------------------------------
(* Valence classifier *)

\* a variant of assign_cluster that differs in one place: the 4.5 boundary is open
assign_cluster_open_boundary(x) ==
    IF LE(x, 35) THEN <<"1-", "tsuyoi", NEG>>
    ELSE IF x.num < 45 * x.den THEN <<"2-", "yowai", NEG>>
    ELSE IF LE(x, 52) THEN <<"3-", NEG, "yori-chuuritsu">>
    ELSE IF LE(x, 60) THEN <<"4-", POS, "yori-chuuritsu">>
    ELSE IF LE(x, 76) THEN <<"5-", "yowai", POS>>
    ELSE <<"6-", "tsuyoi", POS>>

\* a variant of assign_cluster that differs in one place: the band (4.5, 5.2]
\* has a name with neither marker
assign_cluster_unmarked_band(x) ==
    IF LE(x, 35) THEN <<"1-", "tsuyoi", NEG>>
    ELSE IF LE(x, 45) THEN <<"2-", "yowai", NEG>>
    ELSE IF LE(x, 52) THEN <<"3-", "chuuritsu">>
    ELSE IF LE(x, 60) THEN <<"4-", POS, "yori-chuuritsu">>
    ELSE IF LE(x, 76) THEN <<"5-", "yowai", POS>>
    ELSE <<"6-", "tsuyoi", POS>>

assign_cluster(x) ==
    IF LE(x, 35) THEN <<"1-", "tsuyoi", NEG>>
    ELSE IF LE(x, 45) THEN <<"2-", "yowai", NEG>>
    ELSE IF LE(x, 52) THEN <<"3-", NEG, "yori-chuuritsu">>
    ELSE IF LE(x, 60) THEN <<"4-", POS, "yori-chuuritsu">>
    ELSE IF LE(x, 76) THEN <<"5-", "yowai", POS>>
    ELSE <<"6-", "tsuyoi", POS>>

data_handler_assign_cluster(x) ==
    IF LE(x, 35) THEN <<"tsuyoi", NEG>>
    ELSE IF LE(x, 45) THEN <<"yowai", NEG>>
    ELSE IF LE(x, 52) THEN <<NEG, "yori-chuuritsu">>
    ELSE IF LE(x, 60) THEN <<POS, "yori-chuuritsu">>
    ELSE IF LE(x, 76) THEN <<"yowai", POS>>
    ELSE <<"tsuyoi", POS>>

ruiseki_assign_cluster(x) ==
    IF LE(x, 35) THEN <<"tsuyoi", NEG>>
    ELSE IF LE(x, 45) THEN <<"yowai", NEG>>
    ELSE IF LE(x, 52) THEN <<NEG, "yori-chuuritsu">>
    ELSE IF LE(x, 60) THEN <<POS, "yori-chuuritsu">>
    ELSE IF LE(x, 76) THEN <<"yowai", POS>>
    ELSE <<"tsuyoi", POS>>

\* 'marker' in cluster
Contains(cluster, marker) == \E i \in 1..Len(cluster) : cluster[i] = marker

classify_by_cluster(cluster) ==
    IF Contains(cluster, NEG) THEN "Negative"
    ELSE IF Contains(cluster, POS) THEN "Positive"
    ELSE "Neutral"

\* a variant of classify_by_valence that differs in one place: the 4.5 boundary is open
classify_by_valence_open_boundary(x) ==
    IF x.num < 45 * x.den THEN "Negative"
    ELSE IF LE(x, 60) THEN "Neutral"
    ELSE "Positive"

classify_by_valence(x) ==
    IF LE(x, 45) THEN "Negative"
    ELSE IF LE(x, 60) THEN "Neutral"
    ELSE "Positive"

peak_classify_by_valence(x) ==
    IF LE(x, 45) THEN "Negative"
    ELSE IF LE(x, 60) THEN "Neutral"
    ELSE "Positive"

-----------------------------------------------------------------------------
(* Estimation strategies (empathy.py) *)

Valence(df) == Column(df, "valence")

Datetime(df) == Column(df, "datetime")

CountCategory(df, category) ==
    Cardinality({i \in DOMAIN df : classify_by_cluster(df[i].cluster) = category})

\* the tie-break shared by algorithm_most_frequent and algorithm_cluster_based
MostCounted(negative_count, neutral_count, positive_count) ==
    LET max_count == Max3(negative_count, neutral_count, positive_count)
    IN  IF positive_count = max_count THEN "Positive"
        ELSE IF negative_count = max_count THEN "Negative"
        ELSE "Neutral"

\* day_df after algorithm_most_frequent: line 88 writes the column
\* 'emotion_category' into the frame it was given
most_frequent_frame(df) ==
    [i \in DOMAIN df |->
        [df[i] EXCEPT !.emotion_category = classify_by_cluster(df[i].cluster)]]

\* a variant of algorithm_most_frequent that differs in one place: the rows
\* are classified by their valence, not by their cluster name
algorithm_most_frequent_by_valence(df) ==
    IF df = <<>> THEN "Neutral"
    ELSE LET count(category) ==
                Cardinality({i \in DOMAIN df :
                    classify_by_valence(Q(df[i].valence, 1)) = category})
         IN  MostCounted(count("Negative"), count("Neutral"), count("Positive"))

algorithm_most_frequent(df) ==
    IF df = <<>> THEN "Neutral"
    ELSE MostCounted(CountCategory(df, "Negative"),
                     CountCategory(df, "Neutral"),
                     CountCategory(df, "Positive"))

\* a variant of algorithm_peak_value that differs in one place: the last of the tied rows is taken
algorithm_peak_value_last_max(df) ==
    IF df = <<>> THEN "Neutral"
    ELSE LET deviation == [i \in DOMAIN df |-> Abs(df[i].valence - 56)]
             max_abs_idx == CHOOSE i \in DOMAIN df :
                                /\ deviation[i] = SeqMax(deviation)
                                /\ \A j \in (i + 1)..Len(df) : deviation[j] < deviation[i]
         IN  classify_by_valence(Q(df[max_abs_idx].valence, 1))

algorithm_peak_value(df) ==
    IF df = <<>> THEN "Neutral"
    ELSE LET normalized_valence == [i \in DOMAIN df |-> df[i].valence - 56]
             max_abs_idx == idxmax([i \in DOMAIN df |-> Abs(normalized_valence[i])])
             peak_valence == df[max_abs_idx].valence
         IN  classify_by_valence(Q(peak_valence, 1))

\* a variant of algorithm_latest_value that differs in one place: the frame is not sorted
algorithm_latest_value_unsorted(df) ==
    IF df = <<>> THEN {"Neutral"}
    ELSE {classify_by_valence(Q(df[Len(df)].valence, 1))}

\* sort_values('datetime') uses the default kind 'quicksort', which is not
\* stable: among rows sharing the greatest datetime any one may come last.
\* The operator is the set of the categories the call can return.
algorithm_latest_value(df) ==
    IF df = <<>> THEN {"Neutral"}
    ELSE {classify_by_valence(Q(df[i].valence, 1)) :
            i \in {j \in DOMAIN df : df[j].datetime = SeqMax(Datetime(df))}}

\* a variant of algorithm_average_value that differs in one place: no guard for the empty day; the
\* mean of no values is NaN, which compares false with both thresholds
algorithm_average_value_unguarded(df) ==
    IF df = <<>> THEN "Positive"
    ELSE classify_by_valence(Q(SumSeq(Valence(df)), Len(df)))

algorithm_average_value(df) ==
    IF df = <<>> THEN "Neutral"
    ELSE classify_by_valence(Q(SumSeq(Valence(df)), Len(df)))

\* (day_df_sorted['datetime'] - day_df_sorted['datetime'].min()).dt.total_seconds()
time_diffs(df) == [i \in DOMAIN df |-> df[i].datetime - SeqMin(Datetime(df))]

MaxTimeDiff(df) == SeqMax(Datetime(df)) - SeqMin(Datetime(df))

\* the weights time_diffs / time_diffs.max() * 1.0 + 0.5, each multiplied by
\* 2 * time_diffs.max(): the weighted mean is unchanged by the common factor
TimeWeight(df, i) == 2 * (df[i].datetime - SeqMin(Datetime(df))) + MaxTimeDiff(df)

\* np.average(valence, weights=weights) = sum(valence * weights) / sum(weights)
np_average(df) ==
    Q(SumSeq([i \in DOMAIN df |-> df[i].valence * TimeWeight(df, i)]),
      SumSeq([i \in DOMAIN df |-> TimeWeight(df, i)]))

\* ml_empathy.py: the weighted mean among the features of a day
calculate_weighted_average(df) ==
    IF MaxTimeDiff(df) = 0
    THEN Q(SumSeq(Valence(df)), Len(df))
    ELSE np_average(df)

\* a variant of algorithm_weighted_average that differs in one place: the weights lack the 0.5 offset
algorithm_weighted_average_no_offset(df) ==
    IF df = <<>> THEN "Neutral"
    ELSE LET weighted_avg ==
                IF MaxTimeDiff(df) = 0
                THEN Q(SumSeq(Valence(df)), Len(df))
                ELSE Q(SumSeq([i \in DOMAIN df |-> df[i].valence * time_diffs(df)[i]]),
                       SumSeq(time_diffs(df)))
         IN  classify_by_valence(weighted_avg)

algorithm_weighted_average(df) ==
    IF df = <<>> THEN "Neutral"
    ELSE LET weighted_avg ==
                IF MaxTimeDiff(df) = 0
                THEN Q(SumSeq(Valence(df)), Len(df))
                ELSE np_average(df)
         IN  classify_by_valence(weighted_avg)

RECURSIVE SumOver(_, _)
SumOver(S, f) ==
    IF S = {} THEN 0
    ELSE LET x == CHOOSE y \in S : TRUE IN f[x] + SumOver(S \ {x}, f)

\* day_df['cluster'].value_counts(): the count of every label of the day
value_counts(df) ==
    [c \in {df[i].cluster : i \in DOMAIN df} |->
        Cardinality({i \in DOMAIN df : df[i].cluster = c})]

\* a variant of algorithm_cluster_based that differs in one place: Neutral wins a tie with Negative
algorithm_cluster_based_neutral_first(df) ==
    IF df = <<>> THEN "Neutral"
    ELSE LET cluster_counts == value_counts(df)
             names == DOMAIN cluster_counts
             negative_count ==
                SumOver({c \in names : Contains(c, NEG)}, cluster_counts)
             positive_count ==
                SumOver({c \in names : ~Contains(c, NEG) /\ Contains(c, POS)},
                        cluster_counts)
             neutral_count ==
                SumOver({c \in names : ~Contains(c, NEG) /\ ~Contains(c, POS)},
                        cluster_counts)
             max_count == Max3(negative_count, neutral_count, positive_count)
         IN  IF positive_count = max_count THEN "Positive"
             ELSE IF neutral_count = max_count THEN "Neutral"
             ELSE "Negative"

algorithm_cluster_based(df) ==
    IF df = <<>> THEN "Neutral"
    ELSE LET cluster_counts == value_counts(df)
             names == DOMAIN cluster_counts
             negative_count ==
                SumOver({c \in names : Contains(c, NEG)}, cluster_counts)
             positive_count ==
                SumOver({c \in names : ~Contains(c, NEG) /\ Contains(c, POS)},
                        cluster_counts)
             neutral_count ==
                SumOver({c \in names : ~Contains(c, NEG) /\ ~Contains(c, POS)},
                        cluster_counts)
         IN  MostCounted(negative_count, neutral_count, positive_count)

\* cluster_weights.get(cluster, 0), in tenths
cluster_weights(cluster) ==
    IF cluster = <<"1-", "tsuyoi", NEG>> THEN -20
    ELSE IF cluster = <<"2-", "yowai", NEG>> THEN -10
    ELSE IF cluster = <<"3-", NEG, "yori-chuuritsu">> THEN -3
    ELSE IF cluster = <<"4-", POS, "yori-chuuritsu">> THEN 3
    ELSE IF cluster = <<"5-", "yowai", POS>> THEN 10
    ELSE IF cluster = <<"6-", "tsuyoi", POS>> THEN 20
    ELSE 0

\* a variant of algorithm_weighted_cluster that differs in one place: the thresholds are closed
algorithm_weighted_cluster_closed(df) ==
    IF df = <<>> THEN "Neutral"
    ELSE LET total_score == SumSeq([i \in DOMAIN df |-> cluster_weights(df[i].cluster)])
             avg_score == Q(total_score, Len(df))
         IN  IF avg_score.num >= 3 * avg_score.den THEN "Positive"
             ELSE IF avg_score.num <= (-3) * avg_score.den THEN "Negative"
             ELSE "Neutral"

algorithm_weighted_cluster(df) ==
    IF df = <<>> THEN "Neutral"
    ELSE LET total_score == SumSeq([i \in DOMAIN df |-> cluster_weights(df[i].cluster)])
             avg_score == Q(total_score, Len(df))
         IN  IF avg_score.num > 3 * avg_score.den THEN "Positive"
             ELSE IF avg_score.num < (-3) * avg_score.den THEN "Negative"
             ELSE "Neutral"

-----------------------------------------------------------------------------
(* The alternate peak estimator (peak_value_estimator.py) *)

\* 2.0 * ((valence - 1.0) / (9.0 - 1.0)) - 1.0, in thousandths:
\* 1000 * (2 * (v/10 - 1) / 8 - 1) = 25 * v - 1250 for v in tenths
normalize_valence(v) == 25 * v - 1250

\* a variant of estimate_emotion_by_peak_value that differs in one place: the
\* peak is classified with the thresholds of classify_by_valence
estimate_emotion_by_peak_value_by_valence(df) ==
    IF df = <<>> THEN "Neutral"
    ELSE LET valence_normalized == [i \in DOMAIN df |-> normalize_valence(df[i].valence)]
             max_abs_idx == idxmax([i \in DOMAIN df |-> Abs(valence_normalized[i])])
         IN  peak_classify_by_valence(Q(df[max_abs_idx].valence, 1))

estimate_emotion_by_peak_value(df) ==
    IF df = <<>> THEN "Neutral"
    ELSE LET valence_normalized == [i \in DOMAIN df |-> normalize_valence(df[i].valence)]
             max_abs_idx == idxmax([i \in DOMAIN df |-> Abs(valence_normalized[i])])
             peak_valence_normalized == valence_normalized[max_abs_idx]
         IN  IF -20 <= peak_valence_normalized /\ peak_valence_normalized <= 175
             THEN "Neutral"
             ELSE IF peak_valence_normalized > 0 THEN "Positive"
             ELSE "Negative"

-----------------------------------------------------------------------------
(* Analysis of one day (empathy.py analyze_emotions_by_day,                *)
(* peak_value_estimator.py analyze_user_emotions)                          *)

NewRow(t, v, c) ==
    [datetime |-> t, valence |-> v, cluster |-> c, emotion_category |-> NoValue]

\* lines 243-245: the cluster column is derived only when the frame has none
with_cluster_column(df) ==
    IF has_cluster THEN df
    ELSE [i \in DOMAIN df |->
            [df[i] EXCEPT !.cluster = assign_cluster(Q(df[i].valence, 1))]]

InitStrategies ==
    /\ day_df = <<>>
    /\ has_cluster \in BOOLEAN
    /\ call = "none"
    /\ result = NoValue

\* a fetched document without a 'cluster' field becomes a row of the day
FetchRecord ==
    /\ call = "none"
    /\ ~has_cluster
    /\ Len(day_df) < MaxLen
    /\ \E t \in Times, v \in Valences :
          day_df' = Append(day_df, NewRow(t, v, NoValue))
    /\ UNCHANGED <<has_cluster, call, result, clsVars, appVars, mlVars, scoreVars, fetchVars, loopVars, accVars>>

\* a fetched document with a stored 'cluster' field becomes a row of the day
FetchRecordWithCluster ==
    /\ call = "none"
    /\ has_cluster
    /\ Len(day_df) < MaxLen
    /\ \E t \in StoredTimes, v \in StoredValences, c \in StoredClusters :
          day_df' = Append(day_df, NewRow(t, v, c))
    /\ UNCHANGED <<has_cluster, call, result, clsVars, appVars, mlVars, scoreVars, fetchVars, loopVars, accVars>>

\* the seven strategies applied to the day, in the order of lines 258-264.
\* algorithm_most_frequent comes first and writes its column into the frame,
\* so day_df' is the frame every strategy after it is handed; none of the
\* seven reads that column.
AnalyzeDay ==
    /\ call = "none"
    /\ day_df' = most_frequent_frame(with_cluster_column(day_df))
    /\ \E latest \in algorithm_latest_value(day_df') :
          result' = [ most_frequent    |-> algorithm_most_frequent(day_df'),
                      peak_value       |-> algorithm_peak_value(day_df'),
                      latest_value     |-> latest,
                      average_value    |-> algorithm_average_value(day_df'),
                      weighted_average |-> algorithm_weighted_average(day_df'),
                      cluster_based    |-> algorithm_cluster_based(day_df'),
                      weighted_cluster |-> algorithm_weighted_cluster(day_df') ]
    /\ call' = "analyze_emotions_by_day"
    /\ UNCHANGED <<has_cluster, clsVars, appVars, mlVars, scoreVars, fetchVars, loopVars, accVars>>

\* the alternate estimator applied to the day; it works on a copy
EstimatePeak ==
    /\ call = "none"
    /\ result' = [estimated_emotion |-> estimate_emotion_by_peak_value(day_df)]
    /\ call' = "estimate_emotion_by_peak_value"
    /\ UNCHANGED <<day_df, has_cluster, clsVars, appVars, mlVars, scoreVars, fetchVars, loopVars, accVars>>

-----------------------------------------------------------------------------
(* Fetching a user's observations (empathy.py                              *)
(* fetch_all_emotion_data_standalone, peak_value_estimator.py              *)
(* fetch_emotion_data)                                                     *)

\* valences around the band of the alternate peak estimator: 4.5 and 5.5 are
\* equally far from 5.0, 4.9 lies just below the band, 5.8 just above it
PeakValences == {45, 49, 50, 55, 56, 58}

\* a document of the collection: day and time that parse or not, and a
\* valence that is a number (or a numeric string), is missing, or is text
\* that is no number
RawDocs ==
    { [parseable |-> TRUE, datetime |-> 0, valence_kind |-> "number", valence |-> v] :
        v \in PeakValences }
    \cup
    { [parseable |-> FALSE, datetime |-> 0, valence_kind |-> "number", valence |-> 50],
      [parseable |-> TRUE, datetime |-> 0, valence_kind |-> "none", valence |-> 0],
      [parseable |-> TRUE, datetime |-> 0, valence_kind |-> "text", valence |-> 0] }

\* the rows of the frame for the documents kept
Rows(kept) == [i \in DOMAIN kept |-> NewRow(kept[i].datetime, kept[i].valence, NoValue)]

\* empathy.py lines 38-43: to_datetime(errors='coerce'), dropna on datetime
\* and valence, then pd.to_numeric(df['valence']) with the default
\* errors='raise'
fetch_all_emotion_data_standalone(records) ==
    LET kept == SelectSeq(records, LAMBDA d : d.parseable /\ d.valence_kind # "none")
    IN  IF \E i \in DOMAIN kept : kept[i].valence_kind = "text"
        THEN [raised |-> "ValueError", df |-> <<>>]
        ELSE [raised |-> "", df |-> Rows(kept)]

\* peak_value_estimator.py lines 57-67: the same, with
\* pd.to_numeric(errors='coerce') followed by a second dropna on valence
fetch_emotion_data(records) ==
    LET kept == SelectSeq(records, LAMBDA d : d.parseable /\ d.valence_kind # "none")
        numeric == SelectSeq(kept, LAMBDA d : d.valence_kind # "text")
    IN  [raised |-> "", df |-> Rows(numeric)]

InitFetch ==
    /\ docs = <<>>
    /\ fetched = "no"
    /\ day_df = <<>>
    /\ has_cluster = FALSE
    /\ call = "not_fetched"
    /\ result = NoValue

\* lines 29-33: the next document of the stream
StreamDoc ==
    /\ fetched = "no"
    /\ Len(docs) < MaxLen
    /\ \E d \in RawDocs : docs' = Append(docs, d)
    /\ UNCHANGED <<fetched, stratVars, clsVars, appVars, mlVars, scoreVars, loopVars, accVars>>

\* empathy.py: the stream is turned into the frame, or the call raises
FetchAllEmotionDataStandalone ==
    /\ fetched = "no"
    /\ LET r == fetch_all_emotion_data_standalone(docs)
       IN  /\ day_df' = r.df
           /\ fetched' = IF r.raised # "" THEN "raised"
                         ELSE "fetch_all_emotion_data_standalone"
           /\ call' = IF r.raised # "" THEN "raised" ELSE "none"
    /\ UNCHANGED <<docs, has_cluster, result, clsVars, appVars, mlVars, scoreVars,
                   loopVars, accVars>>

\* peak_value_estimator.py: the stream is turned into the frame
FetchEmotionData ==
    /\ fetched = "no"
    /\ LET r == fetch_emotion_data(docs)
       IN  /\ day_df' = r.df
           /\ fetched' = IF r.raised # "" THEN "raised" ELSE "fetch_emotion_data"
           /\ call' = IF r.raised # "" THEN "raised" ELSE "none"
    /\ UNCHANGED <<docs, has_cluster, result, clsVars, appVars, mlVars, scoreVars,
                   loopVars, accVars>>

-----------------------------------------------------------------------------
(* The classifier functions applied to one valence *)

ClassifyInputs == {Q(n, 10) : n \in 0..MaxHundredths}

InitClassify ==
    /\ valence \in ClassifyInputs
    /\ ret = [fn |-> "none"]

ClassifyByValence ==
    /\ ret.fn = "none"
    /\ ret' = [ fn |-> "classify_by_valence",
                empathy |-> classify_by_valence(valence),
                peak_value_estimator |-> peak_classify_by_valence(valence) ]
    /\ UNCHANGED <<appVars, valence, stratVars, mlVars, scoreVars, fetchVars, loopVars, accVars>>

AssignCluster ==
    /\ ret.fn = "none"
    /\ ret' = [ fn |-> "assign_cluster",
                empathy |-> assign_cluster(valence),
                data_handler |-> data_handler_assign_cluster(valence),
                ruiseki |-> ruiseki_assign_cluster(valence) ]
    /\ UNCHANGED <<appVars, valence, stratVars, mlVars, scoreVars, fetchVars, loopVars, accVars>>

-----------------------------------------------------------------------------
(* The leave-one-out evaluator (ml_empathy.py) *)

\* the questionnaire scores of one (subject, day): every combination of 0
\* and 1, and two rows with three different scores
ScoreTriples ==
    [positive_score : 0..1, neutral_score : 0..1, negative_score : 0..1]
    \cup { [positive_score |-> 2, neutral_score |-> 1, negative_score |-> 0],
           [positive_score |-> 0, neutral_score |-> 1, negative_score |-> 2] }

Range(s) == {s[i] : i \in DOMAIN s}

\* the categories of order whose score is wanted, in the order of order
Those(order, score, wanted) ==
    SelectSeq(order, LAMBDA c : score[c] = wanted)

ScoreOf(q, category) ==
    CASE category = "Positive" -> q.positive_score
      [] category = "Neutral" -> q.neutral_score
      [] category = "Negative" -> q.negative_score

\* lines 159-202: the labels of a sample from its three scores
training_sample(q) ==
    LET score == [c \in Categories |-> ScoreOf(q, c)]
        max_score == Max3(q.positive_score, q.neutral_score, q.negative_score)
        min_score == Min3(q.positive_score, q.neutral_score, q.negative_score)
        order == <<"Positive", "Neutral", "Negative">>
        correct_categories == Those(order, score, max_score)
        worst_categories == Those(order, score, min_score)
    IN  [ positive_score |-> q.positive_score,
          neutral_score |-> q.neutral_score,
          negative_score |-> q.negative_score,
          true_label |-> IF correct_categories # <<>> THEN correct_categories[1]
                         ELSE "Neutral",
          worst_label |-> IF worst_categories # <<>> THEN worst_categories[1]
                          ELSE "Neutral",
          correct_categories |-> correct_categories,
          worst_categories |-> worst_categories ]

\* the distinct labels of S in sorted order, as LabelEncoder.classes_ and
\* as the classes_ of a fitted classifier hold them
SortedLabels(S) ==
    SelectSeq(<<"Negative", "Neutral", "Positive">>, LAMBDA c : c \in S)

IndexOf(s, x) == CHOOSE i \in DOMAIN s : s[i] = x

\* lines 247-248: le.fit_transform(y)
le_classes(df) == SortedLabels({df[i].true_label : i \in DOMAIN df})

\* line 271: the classes the classifier of the fold was fitted on
fold_classes(df, k) == SortedLabels({df[i].true_label : i \in DOMAIN df \ {k}})

\* line 274: the class probabilities of the held-out sample, one entry for
\* every class of the fold's classifier: what share of the NTrees trees
\* votes for the class.  The forest is not modelled; any vote is possible.
ProbaVectors(n) == {p \in [1..n -> 0..NTrees] : SumSeq(p) = NTrees}

\* np.argmax: the first position of the maximum
argmax(p) == CHOOSE i \in DOMAIN p : p[i] = SeqMax(p) /\ \A j \in 1..(i - 1) : p[j] < p[i]

\* line 289, a variant that differs in one place: the fallback takes the
\* arg-max of the all-zero adjusted vector, the first position
model_predict_first_position(classes, model_classes, pred_proba) == 1

\* line 289: model.predict(X_test)[0], the encoded label of the class the
\* fold's classifier gives the largest probability
model_predict(classes, model_classes, pred_proba) ==
    IndexOf(classes, model_classes[argmax(pred_proba)])

\* lines 277-323: what the fold that holds out sample k does with the
\* probabilities pred_proba.  Positions are counted from 1.
evaluate_fold(df, k, pred_proba) ==
    LET test_sample == df[k]
        classes == le_classes(df)
        model_classes == fold_classes(df, k)
        worst_label == test_sample.worst_label
    IN  IF worst_label \notin Range(classes)
        THEN [raised |-> "ValueError", fold |-> k]      \* list.index, line 279
        ELSE IF IndexOf(classes, worst_label) > Len(pred_proba)
        THEN [raised |-> "IndexError", fold |-> k]      \* line 283
        ELSE
        LET worst_idx == IndexOf(classes, worst_label)
            adjusted_proba == [pred_proba EXCEPT ![worst_idx] = 0]
            renormalized == SumSeq(adjusted_proba) > 0
            \* np.argmax gives a position of the fold's vector; model.predict
            \* gives the encoded label of the fold's most probable class
            pred == IF renormalized
                    THEN argmax(adjusted_proba)
                    ELSE model_predict(classes, model_classes, pred_proba)
            pred_label == classes[pred]
            true_label == test_sample.true_label
        IN  [ raised |-> "",
              fold |-> k,
              model_classes |-> model_classes,
              pred_proba |-> pred_proba,
              worst_idx |-> worst_idx,
              adjusted_proba |-> adjusted_proba,
              renormalized |-> renormalized,
              pred_label |-> pred_label,
              true_score |-> ScoreOf(test_sample, true_label),
              pred_score |-> ScoreOf(test_sample, pred_label),
              match |-> pred_label \in Range(test_sample.correct_categories),
              avoid_worst |-> pred_label \notin Range(test_sample.worst_categories) ]

\* empathy.py lines 395-417, a variant that differs in one place: only the
\* first category with the highest score is kept
accuracy_categories_first_only(q) ==
    LET score == [c \in Categories |-> ScoreOf(q, c)]
        max_score == Max3(q.positive_score, q.neutral_score, q.negative_score)
        min_score == Min3(q.positive_score, q.neutral_score, q.negative_score)
        order == <<"Positive", "Neutral", "Negative">>
        correct_categories == Those(order, score, max_score)
        worst_categories == Those(order, score, min_score)
    IN  [ questionnaire |-> IF correct_categories # <<>> THEN correct_categories[1]
                            ELSE "Neutral",
          correct_categories |-> SubSeq(correct_categories, 1, 1),
          worst_categories |-> worst_categories ]

\* empathy.py lines 395-417, a variant that differs in one place: the worst
\* categories are compared with the highest score
accuracy_categories_worst_of_highest(q) ==
    LET score == [c \in Categories |-> ScoreOf(q, c)]
        max_score == Max3(q.positive_score, q.neutral_score, q.negative_score)
        order == <<"Positive", "Neutral", "Negative">>
        correct_categories == Those(order, score, max_score)
        worst_categories == Those(order, score, max_score)
    IN  [ questionnaire |-> IF correct_categories # <<>> THEN correct_categories[1]
                            ELSE "Neutral",
          correct_categories |-> correct_categories,
          worst_categories |-> worst_categories ]

\* empathy.py lines 395-417: the category sets calculate_accuracy derives
\* from the three scores of a questionnaire row
accuracy_categories(q) ==
    LET score == [c \in Categories |-> ScoreOf(q, c)]
        max_score == Max3(q.positive_score, q.neutral_score, q.negative_score)
        min_score == Min3(q.positive_score, q.neutral_score, q.negative_score)
        order == <<"Positive", "Neutral", "Negative">>
        correct_categories == Those(order, score, max_score)
        worst_categories == Those(order, score, min_score)
    IN  [ questionnaire |-> IF correct_categories # <<>> THEN correct_categories[1]
                            ELSE "Neutral",
          correct_categories |-> correct_categories,
          worst_categories |-> worst_categories ]

\* the scores a questionnaire row can hold for one day
ScoreInputs ==
    [positive_score : 0..MaxScore, neutral_score : 0..MaxScore, negative_score : 0..MaxScore]

InitScores ==
    /\ scores \in ScoreInputs
    /\ labels = [fn |-> "none"]

\* both evaluators derive the category sets of the same questionnaire scores
ScoreCategories ==
    /\ labels.fn = "none"
    /\ labels' = [ fn |-> "score_categories",
                   calculate_accuracy |-> accuracy_categories(scores),
                   prepare_training_data |-> training_sample(scores) ]
    /\ UNCHANGED <<scores, stratVars, clsVars, appVars, mlVars, fetchVars, loopVars, accVars>>

\* the outcomes of the lookup of one (subject, day) that make the loop of
\* prepare_training_data go on to the next one (lines 106-148)
TrainingMisses ==
    { "no_subject_row", "no_observations", "no_date_column",
      "date_empty", "date_unparseable", "no_rows_on_date" }

\* the subject of the n-th sample: every questionnaire row yields
\* DaysPerSubject samples, in the order of the rows
SubjectOf(n) == 1 + ((n - 1) \div DaysPerSubject)

\* a / b * 100 on numpy numbers: a zero divisor gives nan or inf and a
\* RuntimeWarning, which line 7 silences, never an exception
np_ratio(a, b) ==
    IF b # 0 THEN [kind |-> "number", num |-> 100 * a, den |-> b]
    ELSE IF a = 0 THEN [kind |-> "nan", num |-> 0, den |-> 1]
    ELSE [kind |-> "inf", num |-> a, den |-> 1]

\* Series.sum of column name over the rows of rows whose user_id is in users
SumColumn(rows, users, name) ==
    SumSeq([i \in DOMAIN rows |-> IF rows[i].user_id \in users THEN rows[i][name] ELSE 0])

InitML ==
    /\ training_df = <<>>
    /\ ml_pc = "start"
    /\ fold = [raised |-> "", fold |-> 0]
    /\ scores_list = <<>>
    /\ files \in [ex_date : BOOLEAN, questionnaire : BOOLEAN]
    /\ lookup = "none"
    /\ report = [printed |-> FALSE]

\* prepare_training_data, lines 70-93: both tables are read and the store is
\* opened; a missing file or a failed connection prints its message and
\* returns (None, None, None), on which train_and_evaluate returns at line 236
ReadTables ==
    /\ ml_pc = "start"
    /\ \E db_connected \in BOOLEAN :
          ml_pc' = IF ~(files.ex_date /\ files.questionnaire) THEN "file_not_found"
                   ELSE IF ~db_connected THEN "not_connected"
                   ELSE "prepare"
    /\ UNCHANGED <<training_df, fold, scores_list, stratVars, clsVars, appVars,
                   scoreVars, fetchVars, loopVars, accVars>>

\* prepare_training_data, lines 126-204: one more (subject, day) with
\* observations and questionnaire scores becomes a sample
AddSample ==
    /\ ml_pc = "prepare"
    /\ Len(training_df) < MaxSamples
    /\ \E q \in ScoreTriples :
          LET sample == training_sample(q)
              user_id == SubjectOf(Len(training_df) + 1)
          IN  training_df' = Append(training_df,
                 [f \in DOMAIN sample \cup {"user_id"} |->
                     IF f = "user_id" THEN user_id ELSE sample[f]])
    /\ lookup' = "ok"
    /\ UNCHANGED <<ml_pc, fold, scores_list, files, report, stratVars, clsVars, appVars,
                   scoreVars, fetchVars, accVars>>

\* lines 106-148: the lookup of a (subject, day) misses; a message is
\* printed and the loop continues with the next one
SkipSample ==
    /\ ml_pc = "prepare"
    /\ \E miss \in TrainingMisses : lookup' = miss
    /\ UNCHANGED <<training_df, ml_pc, fold, scores_list, files, report,
                   stratVars, clsVars, appVars, scoreVars, fetchVars, accVars>>

\* lines 206-208 and 233-236: without samples nothing is evaluated
ReturnWithoutSamples ==
    /\ ml_pc = "prepare"
    /\ training_df = <<>>
    /\ ml_pc' = "returned"
    /\ lookup' = "none"
    /\ UNCHANGED <<training_df, fold, scores_list, files, report, stratVars,
                   clsVars, appVars, scoreVars, fetchVars, accVars>>

\* lines 246-265: the labels are encoded and the loop is entered
StartLeaveOneOut ==
    /\ ml_pc = "prepare"
    /\ training_df # <<>>
    /\ ml_pc' = "loo"
    /\ lookup' = "none"
    /\ UNCHANGED <<training_df, fold, scores_list, files, report, stratVars,
                   clsVars, appVars, scoreVars, fetchVars, accVars>>

\* line 267: LeaveOneOut.split refuses a single sample
SplitRaises ==
    /\ ml_pc = "loo"
    /\ Len(training_df) = 1
    /\ ml_pc' = "raised"
    /\ fold' = [raised |-> "ValueError", fold |-> 0]
    /\ UNCHANGED <<training_df, scores_list, stratVars, clsVars, appVars, scoreVars,
                   fetchVars, loopVars, accVars>>

\* lines 311-323: the entry of scores_list, with the columns the report reads
scores_entry(test_sample, f) ==
    [ user_id |-> test_sample.user_id,
      true_score |-> f.true_score,
      pred_score |-> f.pred_score,
      match |-> f.match,
      avoid_worst |-> f.avoid_worst ]

\* lines 267-323: the next fold
RunFold ==
    /\ ml_pc = "loo"
    /\ Len(training_df) > 1
    /\ fold.fold < Len(training_df)
    /\ LET k == fold.fold + 1
       IN  \E pred_proba \in ProbaVectors(Len(fold_classes(training_df, k))) :
              /\ fold' = evaluate_fold(training_df, k, pred_proba)
              /\ ml_pc' = IF fold'.raised # "" THEN "raised" ELSE "loo"
              /\ scores_list' = IF fold'.raised # "" THEN scores_list
                                ELSE Append(scores_list, scores_entry(training_df[k], fold'))
    /\ UNCHANGED <<training_df, stratVars, clsVars, appVars, scoreVars, fetchVars,
                   loopVars, accVars>>

\* lines 325-371: after the last fold the totals and the score ratios, overall
\* (line 339) and of every subject (line 365), are computed and printed
ReportScores ==
    /\ ml_pc = "loo"
    /\ Len(training_df) > 1
    /\ fold.fold = Len(training_df)
    /\ LET users == {scores_list[i].user_id : i \in DOMAIN scores_list}
           total_true_score == SumColumn(scores_list, users, "true_score")
           total_pred_score == SumColumn(scores_list, users, "pred_score")
       IN  report' =
              [ printed |-> TRUE,
                total_true_score |-> total_true_score,
                total_pred_score |-> total_pred_score,
                score_ratio |-> np_ratio(total_pred_score, total_true_score),
                user_scores |->
                   [u \in users |->
                      [ true_score |-> SumColumn(scores_list, {u}, "true_score"),
                        pred_score |-> SumColumn(scores_list, {u}, "pred_score"),
                        score_ratio |-> np_ratio(SumColumn(scores_list, {u}, "pred_score"),
                                                 SumColumn(scores_list, {u}, "true_score")) ]] ]
    /\ ml_pc' = "reported"
    /\ UNCHANGED <<training_df, fold, scores_list, files, lookup,
                   stratVars, clsVars, appVars, scoreVars, fetchVars, accVars>>

-----------------------------------------------------------------------------
(* The questionnaire comparison (empathy.py calculate_accuracy) *)

\* line 469
algorithms ==
    << "most_frequent", "peak_value", "latest_value", "average_value",
       "weighted_average", "cluster_based", "weighted_cluster" >>

\* line 374
day_nums == <<1, 2, 3>>

\* the row of results_df for a day (analyze_emotions_by_day, lines 243-265)
result_row(df) ==
    LET day == most_frequent_frame(
                  [i \in DOMAIN df |->
                      [df[i] EXCEPT !.cluster = assign_cluster(Q(df[i].valence, 1))]])
    IN  [ most_frequent    |-> algorithm_most_frequent(day),
          peak_value       |-> algorithm_peak_value(day),
          latest_value     |-> CHOOSE c \in algorithm_latest_value(day) : TRUE,
          average_value    |-> algorithm_average_value(day),
          weighted_average |-> algorithm_weighted_average(day),
          cluster_based    |-> algorithm_cluster_based(day),
          weighted_cluster |-> algorithm_weighted_cluster(day) ]

\* what a (subject, day) with questionnaire scores and an analysed day can
\* hold: scores that are all 0 with a day of one observation of 5.6, and
\* three different scores with a day of 3.0 followed by 8.0, on which the
\* seven strategies disagree
ComparisonInputs ==
    { [ positive_score |-> 0, neutral_score |-> 0, negative_score |-> 0,
        day |-> <<NewRow(0, 56, NoValue)>> ],
      [ positive_score |-> 2, neutral_score |-> 1, negative_score |-> 0,
        day |-> <<NewRow(0, 30, NoValue), NewRow(1, 80, NoValue)>> ] }

\* the outcomes of the lookup of one (subject, day) that make the loop of
\* calculate_accuracy go on to the next one (lines 377-426)
AccuracyMisses == {"no_date_column", "date_empty", "date_unparseable", "no_result"}

\* lines 448-454, a variant that differs in one place: the estimate is
\* compared with the first correct category only
matches_first_only(estimate, correct_categories) == estimate = correct_categories[1]

\* lines 448-454: result_row[algo] in correct_categories
matches(estimate, correct_categories) == estimate \in Range(correct_categories)

\* lines 456-462: result_row[algo] not in worst_categories
avoids_worst(estimate, worst_categories) == estimate \notin Range(worst_categories)

\* lines 431-463: the row appended to comparison_results
comparison_row(user_name, day_num, q, estimates) ==
    LET cats == accuracy_categories(q)
    IN  [ user_id |-> user_name,
          day_num |-> day_num,
          questionnaire |-> cats.questionnaire,
          correct_categories |-> cats.correct_categories,
          worst_categories |-> cats.worst_categories,
          positive_score |-> q.positive_score,
          neutral_score |-> q.neutral_score,
          negative_score |-> q.negative_score,
          estimate |-> estimates,
          match |-> [a \in Range(algorithms) |->
                        matches(estimates[a], cats.correct_categories)],
          avoid_worst |-> [a \in Range(algorithms) |->
                        avoids_worst(estimates[a], cats.worst_categories)] ]

\* lines 495 and 549, a variant that differs in one place: no guard for a
\* true-score total of 0
score_ratio_unguarded(pred_score, true_score) == np_ratio(pred_score, true_score)

\* lines 495 and 549: (pred / true * 100) if true > 0 else 0
score_ratio(pred_score, true_score) ==
    IF true_score > 0
    THEN [kind |-> "number", num |-> 100 * pred_score, den |-> true_score]
    ELSE [kind |-> "number", num |-> 0, den |-> 1]

\* lines 483-495 and 537-549: the totals and the ratio of algo over rows
score_comparison(rows, algo) ==
    LET true_score == SumSeq([i \in DOMAIN rows |-> ScoreOf(rows[i], rows[i].questionnaire)])
        pred_score == SumSeq([i \in DOMAIN rows |-> ScoreOf(rows[i], rows[i].estimate[algo])])
    IN  [ true_score |-> true_score,
          pred_score |-> pred_score,
          ratio |-> score_ratio(pred_score, true_score) ]

InitAccuracy ==
    /\ acc_pc = "start"
    /\ cursor = [row |-> 0, day_num |-> 0]
    /\ comparison_results = <<>>
    /\ files \in [ex_date : BOOLEAN, questionnaire : BOOLEAN]
    /\ lookup = "none"
    /\ report = [printed |-> FALSE]

\* a variant of ReadCsv that differs in one place: the absence of
\* questionnaire.csv is not noticed
ReadCsv_questionnaire_unchecked ==
    /\ acc_pc = "start"
    /\ \E readable \in BOOLEAN :
          acc_pc' = IF ~files.ex_date THEN "file_not_found"
                    ELSE IF ~readable THEN "read_error"
                    ELSE "rows"
    /\ UNCHANGED <<cursor, comparison_results, loopVars, stratVars, clsVars, appVars,
                   mlVars, scoreVars, fetchVars>>

\* lines 331-356: the two tables are read; a missing file, or any other
\* failure to read one, is reported and calculate_accuracy returns
ReadCsv ==
    /\ acc_pc = "start"
    /\ \E readable \in BOOLEAN :
          acc_pc' = IF ~(files.ex_date /\ files.questionnaire) THEN "file_not_found"
                    ELSE IF ~readable THEN "read_error"
                    ELSE "rows"
    /\ UNCHANGED <<cursor, comparison_results, loopVars, stratVars, clsVars, appVars,
                   mlVars, scoreVars, fetchVars>>

\* lines 365-372: the next questionnaire row; a subject without a row in the
\* period table is passed over
NextQuestionnaireRow ==
    /\ acc_pc = "rows"
    /\ cursor.row < MaxRows
    /\ cursor' = [row |-> cursor.row + 1, day_num |-> 0]
    /\ \E user_ex_dates_empty \in BOOLEAN :
          IF user_ex_dates_empty
          THEN acc_pc' = "rows" /\ lookup' = "no_subject_row"
          ELSE acc_pc' = "days" /\ lookup' = "none"
    /\ UNCHANGED <<comparison_results, files, report, stratVars, clsVars, appVars,
                   mlVars, scoreVars, fetchVars>>

\* a variant of SkipDay that differs in one place: a miss ends the loop over
\* the questionnaire rows
SkipDay_leaving_the_loop ==
    /\ acc_pc = "days"
    /\ \E miss \in AccuracyMisses : lookup' = miss
    /\ cursor' = [cursor EXCEPT !.day_num = cursor.day_num + 1]
    /\ acc_pc' = "nothing_to_compare"
    /\ UNCHANGED <<comparison_results, files, report, stratVars, clsVars, appVars,
                   mlVars, scoreVars, fetchVars>>

\* lines 374-426: the lookup of the next day of the row misses
SkipDay ==
    /\ acc_pc = "days"
    /\ \E miss \in AccuracyMisses : lookup' = miss
    /\ cursor' = [cursor EXCEPT !.day_num = cursor.day_num + 1]
    /\ acc_pc' = IF cursor'.day_num = Len(day_nums) THEN "rows" ELSE "days"
    /\ UNCHANGED <<comparison_results, files, report, stratVars, clsVars, appVars,
                   mlVars, scoreVars, fetchVars>>

\* lines 374-463: the next day of the row has a date, scores and a result
\* row, and is compared
CompareDay ==
    /\ acc_pc = "days"
    /\ cursor' = [cursor EXCEPT !.day_num = cursor.day_num + 1]
    /\ \E input \in ComparisonInputs :
          comparison_results' =
              Append(comparison_results,
                     comparison_row(cursor.row, cursor'.day_num, input,
                                    result_row(input.day)))
    /\ lookup' = "ok"
    /\ acc_pc' = IF cursor'.day_num = Len(day_nums) THEN "rows" ELSE "days"
    /\ UNCHANGED <<files, report, stratVars, clsVars, appVars, mlVars, scoreVars, fetchVars>>

\* lines 465-571: after the last questionnaire row the ratios of every
\* strategy, overall and by subject, are reported and the comparison is
\* written to questionnaire_comparison.csv; without rows only a message
ReportComparison ==
    /\ acc_pc = "rows"
    /\ IF comparison_results = <<>>
       THEN acc_pc' = "nothing_to_compare" /\ report' = report
       ELSE /\ acc_pc' = "reported"
            /\ LET users == {comparison_results[i].user_id : i \in DOMAIN comparison_results}
                   user_data(u) == SelectSeq(comparison_results, LAMBDA row : row.user_id = u)
               IN  report' =
                      [ printed |-> TRUE,
                        overall |-> [a \in Range(algorithms) |->
                                        score_comparison(comparison_results, a)],
                        user_score_comparison |->
                            [u \in users |->
                                [a \in Range(algorithms) |->
                                    score_comparison(user_data(u), a)]] ]
    /\ lookup' = "none"
    /\ UNCHANGED <<cursor, comparison_results, files, stratVars, clsVars, appVars,
                   mlVars, scoreVars, fetchVars>>

-----------------------------------------------------------------------------
(* The Firebase connection (empathy.py initialize_firebase_standalone and   *)
(* analyze_emotions_by_day, peak_value_estimator.py initialize_firebase)    *)

\* Python's None, and a value that is present
None == <<>>

Some(v) == <<v>>

\* the name under which firebase_admin registers the app of initialize_app
DEFAULT_APP == "[DEFAULT]"

\* what happens in the try block of a call that finds no app registered:
\* the credentials load and the app is registered, credentials.Certificate
\* raises (no file, no valid key), or initialize_app raises
InitOutcomes == {"ok", "Certificate_raises", "initialize_app_raises"}

\* firebase_admin.initialize_app(cred): the default app is registered once
\* the call has succeeded; a second default app is refused with ValueError
initialize_app(apps, outcome) ==
    IF DEFAULT_APP \in apps \/ outcome = "initialize_app_raises"
    THEN [raised |-> TRUE, apps |-> apps]
    ELSE [raised |-> FALSE, apps |-> apps \cup {DEFAULT_APP}]

\* firestore.client(): the client of the registered default app
firestore_client(apps) == Some(CHOOSE app \in apps : app = DEFAULT_APP)

\* empathy.py lines 9-18, a variant that differs in one place: the test of
\* firebase_admin._apps is left out
initialize_firebase_standalone_unguarded(apps, outcome) ==
    IF outcome = "Certificate_raises"
    THEN [apps |-> apps, tried |-> TRUE, initialize_app |-> "not_called",
          returned |-> None]
    ELSE LET app == initialize_app(apps, outcome)
         IN  IF app.raised
             THEN [apps |-> app.apps, tried |-> TRUE,
                   initialize_app |-> "raised", returned |-> None]
             ELSE [apps |-> app.apps, tried |-> TRUE,
                   initialize_app |-> "registered",
                   returned |-> firestore_client(app.apps)]

\* empathy.py lines 9-18: apps is firebase_admin._apps before the call; the
\* result holds it after the call, what the call did and what it returned
initialize_firebase_standalone(apps, outcome) ==
    IF apps = {}
    THEN IF outcome = "Certificate_raises"
         THEN [apps |-> apps, tried |-> TRUE, initialize_app |-> "not_called",
               returned |-> None]
         ELSE LET app == initialize_app(apps, outcome)
              IN  IF app.raised
                  THEN [apps |-> app.apps, tried |-> TRUE,
                        initialize_app |-> "raised", returned |-> None]
                  ELSE [apps |-> app.apps, tried |-> TRUE,
                        initialize_app |-> "registered",
                        returned |-> firestore_client(app.apps)]
    ELSE [apps |-> apps, tried |-> FALSE, initialize_app |-> "not_called",
          returned |-> firestore_client(apps)]

\* peak_value_estimator.py lines 28-38: the same function under another name
initialize_firebase(apps, outcome) ==
    IF apps = {}
    THEN IF outcome = "Certificate_raises"
         THEN [apps |-> apps, tried |-> TRUE, initialize_app |-> "not_called",
               returned |-> None]
         ELSE LET app == initialize_app(apps, outcome)
              IN  IF app.raised
                  THEN [apps |-> app.apps, tried |-> TRUE,
                        initialize_app |-> "raised", returned |-> None]
                  ELSE [apps |-> app.apps, tried |-> TRUE,
                        initialize_app |-> "registered",
                        returned |-> firestore_client(app.apps)]
    ELSE [apps |-> apps, tried |-> FALSE, initialize_app |-> "not_called",
          returned |-> firestore_client(apps)]

\* the entry of firebase_calls for a call of fn that did what r holds
call_entry(fn, r) ==
    [ fn |-> fn,
      tried |-> r.tried,
      initialize_app |-> r.initialize_app,
      returned |-> r.returned,
      apps |-> r.apps ]

InitFirebase ==
    /\ firebase_apps = {}
    /\ firebase_calls = <<>>

\* empathy.py lines 229-235: analyze_emotions_by_day connects for one user
InitializeFirebaseStandalone ==
    /\ Len(firebase_calls) < MaxCalls
    /\ \E outcome \in InitOutcomes :
          LET r == initialize_firebase_standalone(firebase_apps, outcome)
          IN  /\ firebase_apps' = r.apps
              /\ firebase_calls' =
                    Append(firebase_calls,
                           call_entry("initialize_firebase_standalone", r))
    /\ UNCHANGED <<pageVars, durVars, stratVars, clsVars, mlVars, scoreVars,
                   fetchVars, loopVars, accVars>>

\* peak_value_estimator.py: a connection made in the same process
InitializeFirebase ==
    /\ Len(firebase_calls) < MaxCalls
    /\ \E outcome \in InitOutcomes :
          LET r == initialize_firebase(firebase_apps, outcome)
          IN  /\ firebase_apps' = r.apps
              /\ firebase_calls' =
                    Append(firebase_calls, call_entry("initialize_firebase", r))
    /\ UNCHANGED <<pageVars, durVars, stratVars, clsVars, mlVars, scoreVars,
                   fetchVars, loopVars, accVars>>

-----------------------------------------------------------------------------
(* The page views of one dashboard session (app.py).  Times are whole       *)
(* seconds; datetime.now() never returns less than it returned before.      *)

\* the options of the radio button: one day, three days, cumulative analysis
view_options == <<"1-day", "3-days", "cumulative">>

\* st.session_state.key = value
SetKey(state, key, value) == (key :> value) @@ state

\* del st.session_state.key, for a key that is present
DelKey(state, key) == [k \in DOMAIN state \ {key} |-> state[k]]

\* datetime.now(): the clock of s, tick seconds later
Now(s, tick) == s.clock + tick

\* app.py lines 43-62.  s holds the session state, the user's page_views
\* collection, the clock and whether a write has failed; ticks are the
\* seconds that pass before each datetime.now(), add_ok whether the add at
\* line 59 succeeds.  A document's id is its position in page_views.
log_page_view(s, view_mode, ticks, add_ok) ==
    IF "page_view_start" \notin DOMAIN s.session_state
    THEN LET now == Now(s, ticks[1])
             started == SetKey(SetKey(s.session_state, "page_view_start", now),
                               "current_view_mode", view_mode)
             page_view_log == [ session_id |-> s.session_state.session_id,
                                view_mode |-> view_mode,
                                start_time |-> now,
                                end_time |-> None,
                                duration_seconds |-> None ]
         IN  IF add_ok
             THEN [ s EXCEPT
                      !.clock = now,
                      !.page_views = Append(s.page_views, page_view_log),
                      !.session_state =
                          SetKey(started, "page_view_doc_id", Len(s.page_views) + 1) ]
             ELSE [ s EXCEPT !.clock = now,
                             !.session_state = started,
                             !.write_failed = TRUE ]
    ELSE s

\* app.py lines 65-84, a variant that differs in one place: the page view is
\* closed whether or not the view mode has changed
update_page_view_duration_every_rerun(s, view_mode, ticks, add_ok, update_ok) ==
    IF "page_view_start" \in DOMAIN s.session_state
    THEN LET end_time == Now(s, ticks[2])
             duration == end_time - s.session_state.page_view_start
             later == [s EXCEPT !.clock = end_time]
         IN  IF "page_view_doc_id" \in DOMAIN s.session_state
             THEN IF update_ok
                  THEN LET doc_id == s.session_state.page_view_doc_id
                           updated ==
                             [ later EXCEPT
                                 !.page_views[doc_id].end_time = Some(end_time),
                                 !.page_views[doc_id].duration_seconds = Some(duration),
                                 !.session_state =
                                     DelKey(DelKey(s.session_state, "page_view_start"),
                                            "page_view_doc_id") ]
                       IN  log_page_view(updated, view_mode, <<ticks[3]>>, add_ok)
                  ELSE [later EXCEPT !.write_failed = TRUE]
             ELSE [later EXCEPT
                     !.session_state = DelKey(s.session_state, "page_view_start")]
    ELSE s

\* app.py lines 65-84.  update_ok: whether the update at line 74 succeeds.
\* An exception leaves the function at once (line 83): a failed update
\* deletes nothing, and without a document id the del at line 81 raises
\* after page_view_start was deleted.
update_page_view_duration(s, view_mode, ticks, add_ok, update_ok) ==
    IF /\ "page_view_start" \in DOMAIN s.session_state
       /\ s.session_state.current_view_mode # view_mode
    THEN LET end_time == Now(s, ticks[2])
             duration == end_time - s.session_state.page_view_start
             later == [s EXCEPT !.clock = end_time]
         IN  IF "page_view_doc_id" \in DOMAIN s.session_state
             THEN IF update_ok
                  THEN LET doc_id == s.session_state.page_view_doc_id
                           updated ==
                             [ later EXCEPT
                                 !.page_views[doc_id].end_time = Some(end_time),
                                 !.page_views[doc_id].duration_seconds = Some(duration),
                                 !.session_state =
                                     DelKey(DelKey(s.session_state, "page_view_start"),
                                            "page_view_doc_id") ]
                       IN  log_page_view(updated, view_mode, <<ticks[3]>>, add_ok)
                  ELSE [later EXCEPT !.write_failed = TRUE]
             ELSE [later EXCEPT
                     !.session_state = DelKey(s.session_state, "page_view_start")]
    ELSE s

\* app.py lines 91-97: the keys main sets on the first run of the session
with_session_keys(state) ==
    LET dated == IF "current_date" \in DOMAIN state THEN state
                 ELSE SetKey(state, "current_date", "today")
    IN  IF "session_id" \in DOMAIN dated THEN dated
        ELSE SetKey(dated, "session_id", "uuid4")

InitDashboard ==
    /\ session_state = [k \in {} |-> None]
    /\ page_views = <<>>
    /\ access_logs = 0
    /\ clock = 0
    /\ selected_view = NoValue
    /\ write_failed = FALSE

\* app.py lines 87-115: a run of main that stops at st.stop(), because there
\* is no connection or no valid token
MainStops ==
    /\ session_state' = with_session_keys(session_state)
    /\ UNCHANGED <<page_views, access_logs, clock, selected_view, write_failed,
                   firebaseVars, durVars, stratVars, clsVars, mlVars,
                   scoreVars, fetchVars, loopVars, accVars>>

\* app.py lines 87-134: a run of main that reaches the radio button, for the
\* view mode the user has selected
Main ==
    /\ access_logs < MaxReruns
    /\ \E view \in Range(view_options), ticks \in [1..3 -> 0..1],
          add_ok \in BOOLEAN, update_ok \in BOOLEAN :
          LET entered == [ session_state |-> with_session_keys(session_state),
                           page_views |-> page_views,
                           clock |-> clock,
                           write_failed |-> write_failed ]
              logged == log_page_view(entered, view, ticks, add_ok)
              updated == update_page_view_duration(logged, view, ticks,
                                                   add_ok, update_ok)
          IN  /\ session_state' = updated.session_state
              /\ page_views' = updated.page_views
              /\ clock' = updated.clock
              /\ write_failed' = updated.write_failed
              /\ selected_view' = view
    /\ access_logs' = access_logs + 1
    /\ UNCHANGED <<firebaseVars, durVars, stratVars, clsVars, mlVars,
                   scoreVars, fetchVars, loopVars, accVars>>

-----------------------------------------------------------------------------
(* The estimate of the missing durations (analyze_access_logs.py            *)
(* estimate_missing_durations).  Times are whole seconds.                   *)

\* the start times, the users and sessions of the fetched page views
StartTimes == {0, 60, 120}

UserSessions == {<<1, 1>>, <<1, 2>>, <<2, 1>>}

\* timedelta(minutes=5), in seconds
DefaultDuration == 300

\* a page view as app.py leaves it: open, or closed after 30 seconds;
\* doc_id is the position of the document in the stream
PageViewRows(doc_id) ==
    { [ doc_id |-> doc_id,
        user_id |-> us[1], session_id |-> us[2], start_time |-> t,
        end_time |-> IF closed THEN Some(t + 30) ELSE None,
        duration_seconds |-> IF closed THEN Some(30) ELSE None,
        is_estimated |-> None ] :
        us \in UserSessions, t \in StartTimes, closed \in BOOLEAN }

\* the order of sort_values(['user_id', 'session_id', 'start_time'])
SortsBefore(a, b) ==
    \/ a.user_id < b.user_id
    \/ a.user_id = b.user_id /\ a.session_id < b.session_id
    \/ /\ a.user_id = b.user_id
       /\ a.session_id = b.session_id
       /\ a.start_time < b.start_time

\* row put into the sorted frame df after the rows that do not sort after it
InsertSorted(df, row) ==
    LET before == {i \in DOMAIN df : ~SortsBefore(row, df[i])}
        n == Cardinality(before)
    IN  SubSeq(df, 1, n) \o <<row>> \o SubSeq(df, n + 1, Len(df))

RECURSIVE sort_values(_)
sort_values(df) ==
    IF df = <<>> THEN <<>>
    ELSE InsertSorted(sort_values(SubSeq(df, 1, Len(df) - 1)), df[Len(df)])

\* analyze_access_logs.py lines 257-287, a variant that differs in one
\* place: a page view that starts at the same time counts as the next one
estimate_missing_durations_not_strict(df) ==
    IF df = <<>> THEN df
    ELSE LET sorted == sort_values(df)
             estimate(row) ==
                IF row.end_time = None \/ row.duration_seconds = None
                THEN LET next_view ==
                            {j \in DOMAIN sorted :
                                /\ sorted[j].user_id = row.user_id
                                /\ sorted[j].session_id = row.session_id
                                /\ sorted[j].start_time >= row.start_time}
                         estimated_end ==
                            IF next_view # {}
                            THEN CHOOSE t \in {sorted[j].start_time : j \in next_view} :
                                    \A j \in next_view : t <= sorted[j].start_time
                            ELSE row.start_time + DefaultDuration
                     IN  [ row EXCEPT
                             !.end_time = Some(estimated_end),
                             !.duration_seconds = Some(estimated_end - row.start_time),
                             !.is_estimated = Some(TRUE) ]
                ELSE [row EXCEPT !.is_estimated = Some(FALSE)]
         IN  [i \in DOMAIN sorted |-> estimate(sorted[i])]

\* analyze_access_logs.py lines 257-287: the frame that is returned.  The
\* rows are changed in a sorted copy; start_time, which the search of the
\* next view reads, is never written.
estimate_missing_durations(df) ==
    IF df = <<>> THEN df
    ELSE LET sorted == sort_values(df)
             estimate(row) ==
                IF row.end_time = None \/ row.duration_seconds = None
                THEN LET next_view ==
                            {j \in DOMAIN sorted :
                                /\ sorted[j].user_id = row.user_id
                                /\ sorted[j].session_id = row.session_id
                                /\ sorted[j].start_time > row.start_time}
                         estimated_end ==
                            IF next_view # {}
                            THEN CHOOSE t \in {sorted[j].start_time : j \in next_view} :
                                    \A j \in next_view : t <= sorted[j].start_time
                            ELSE row.start_time + DefaultDuration
                     IN  [ row EXCEPT
                             !.end_time = Some(estimated_end),
                             !.duration_seconds = Some(estimated_end - row.start_time),
                             !.is_estimated = Some(TRUE) ]
                ELSE [row EXCEPT !.is_estimated = Some(FALSE)]
         IN  [i \in DOMAIN sorted |-> estimate(sorted[i])]

InitDurations ==
    /\ page_view_df = <<>>
    /\ estimated_df = [called |-> FALSE]

\* fetch_page_views: the next document becomes a row of the frame
FetchPageView ==
    /\ ~estimated_df.called
    /\ Len(page_view_df) < MaxViews
    /\ \E row \in PageViewRows(Len(page_view_df) + 1) :
          page_view_df' = Append(page_view_df, row)
    /\ UNCHANGED <<estimated_df, firebaseVars, pageVars, stratVars, clsVars,
                   mlVars, scoreVars, fetchVars, loopVars, accVars>>

\* the call of estimate_missing_durations on the fetched frame: df.copy()
\* at line 262 leaves the caller's frame as it is
EstimateMissingDurations ==
    /\ ~estimated_df.called
    /\ estimated_df' = [ called |-> TRUE,
                      returned |-> estimate_missing_durations(page_view_df) ]
    /\ UNCHANGED <<page_view_df, firebaseVars, pageVars, stratVars, clsVars,
                   mlVars, scoreVars, fetchVars, loopVars, accVars>>

-----------------------------------------------------------------------------
(* Specifications *)

\* the state of the parts of the program a specification does not run
IdleStrategies ==
    /\ day_df = <<>>
    /\ has_cluster = FALSE
    /\ call = "done"
    /\ result = NoValue

IdleClassify ==
    /\ valence = Q(0, 1)
    /\ ret = [fn |-> "none"]

IdleML ==
    /\ training_df = <<>>
    /\ ml_pc = "idle"
    /\ fold = [raised |-> "", fold |-> 0]
    /\ scores_list = <<>>

IdleScores ==
    /\ scores = [positive_score |-> 0, neutral_score |-> 0, negative_score |-> 0]
    /\ labels = [fn |-> "idle"]

IdleFetch ==
    /\ docs = <<>>
    /\ fetched = "idle"

IdleLoop ==
    /\ files = [ex_date |-> TRUE, questionnaire |-> TRUE]
    /\ lookup = "none"
    /\ report = [printed |-> FALSE]

IdleAccuracy ==
    /\ acc_pc = "idle"
    /\ cursor = [row |-> 0, day_num |-> 0]
    /\ comparison_results = <<>>

IdleFirebase ==
    /\ firebase_apps = {}
    /\ firebase_calls = <<>>

IdleDashboard ==
    /\ session_state = [k \in {} |-> None]
    /\ page_views = <<>>
    /\ access_logs = 0
    /\ clock = 0
    /\ selected_view = NoValue
    /\ write_failed = FALSE

IdleDurations ==
    /\ page_view_df = <<>>
    /\ estimated_df = [called |-> TRUE]

IdleApp == IdleFirebase /\ IdleDashboard /\ IdleDurations

\* empathy.py: the analysis of one day
Init ==
    /\ InitStrategies
    /\ IdleClassify /\ IdleML /\ IdleScores /\ IdleFetch /\ IdleLoop /\ IdleAccuracy
    /\ IdleApp

Next == FetchRecord \/ FetchRecordWithCluster \/ AnalyzeDay \/ EstimatePeak

Spec == Init /\ [][Next]_vars

\* the classifier functions
InitCls ==
    /\ InitClassify
    /\ IdleStrategies /\ IdleML /\ IdleScores /\ IdleFetch /\ IdleLoop /\ IdleAccuracy
    /\ IdleApp

NextCls == ClassifyByValence \/ AssignCluster

SpecClassify == InitCls /\ [][NextCls]_vars

\* ml_empathy.py: train_and_evaluate
InitLOO ==
    /\ InitML
    /\ IdleStrategies /\ IdleClassify /\ IdleScores /\ IdleFetch /\ IdleAccuracy
    /\ IdleApp

NextLOO ==
    \/ ReadTables
    \/ AddSample
    \/ SkipSample
    \/ ReturnWithoutSamples
    \/ StartLeaveOneOut
    \/ SplitRaises
    \/ RunFold
    \/ ReportScores

SpecLOO == InitLOO /\ [][NextLOO]_vars

\* either evaluator: calculate_accuracy or train_and_evaluate
InitEvaluate ==
    /\ \/ InitAccuracy /\ IdleML
       \/ InitML /\ IdleAccuracy
    /\ IdleStrategies /\ IdleClassify /\ IdleScores /\ IdleFetch
    /\ IdleApp

NextAccuracy ==
    \/ ReadCsv
    \/ NextQuestionnaireRow
    \/ SkipDay
    \/ CompareDay
    \/ ReportComparison

NextEvaluate == NextAccuracy \/ NextLOO

SpecEvaluate == InitEvaluate /\ [][NextEvaluate]_vars

\* the two fetch functions and the alternate peak estimator
InitFetching ==
    /\ InitFetch
    /\ IdleClassify /\ IdleML /\ IdleScores /\ IdleLoop /\ IdleAccuracy
    /\ IdleApp

NextFetch == StreamDoc \/ FetchAllEmotionDataStandalone \/ FetchEmotionData \/ EstimatePeak

SpecFetch == InitFetching /\ [][NextFetch]_vars

\* the category sets of one questionnaire row
InitScoring ==
    /\ InitScores
    /\ IdleStrategies /\ IdleClassify /\ IdleML /\ IdleFetch /\ IdleLoop /\ IdleAccuracy
    /\ IdleApp

NextScoring == ScoreCategories

SpecScores == InitScoring /\ [][NextScoring]_vars

\* the calls that connect to Firebase within one process
InitConnect ==
    /\ InitFirebase
    /\ IdleStrategies /\ IdleClassify /\ IdleML /\ IdleScores /\ IdleFetch
    /\ IdleLoop /\ IdleAccuracy /\ IdleDashboard /\ IdleDurations

NextConnect == InitializeFirebaseStandalone \/ InitializeFirebase

SpecFirebase == InitConnect /\ [][NextConnect]_vars

\* app.py: the runs of main within one session
InitSession ==
    /\ InitDashboard
    /\ IdleStrategies /\ IdleClassify /\ IdleML /\ IdleScores /\ IdleFetch
    /\ IdleLoop /\ IdleAccuracy /\ IdleFirebase /\ IdleDurations

NextSession == MainStops \/ Main

SpecDashboard == InitSession /\ [][NextSession]_vars

\* analyze_access_logs.py: estimate_missing_durations on a fetched frame
InitEstimate ==
    /\ InitDurations
    /\ IdleStrategies /\ IdleClassify /\ IdleML /\ IdleScores /\ IdleFetch
    /\ IdleLoop /\ IdleAccuracy /\ IdleFirebase /\ IdleDashboard

NextEstimate == FetchPageView \/ EstimateMissingDurations

SpecDurations == InitEstimate /\ [][NextEstimate]_vars

-----------------------------------------------------------------------------
(* Properties of the strategies (specification Spec) *)

Analyzed == call = "analyze_emotions_by_day"

Dev(v) == Abs(v - 56)

\* the number of rows of the day whose valence lies in (lo, hi] tenths
CountValence(df, lo, hi) ==
    Cardinality({i \in DOMAIN df : lo < df[i].valence /\ df[i].valence <= hi})

\* C2: for a non-empty day whose clusters were derived from the valences,
\* MostFrequent returns the Category (Negative if valence <= 4.5, Neutral if
\* 4.5 < valence <= 6.0, Positive otherwise) with the most observations,
\* Positive winning every tie it is part of.
C2_MostFrequentIsTheModalValenceCategory ==
    (Analyzed /\ ~has_cluster /\ day_df # <<>>) =>
        LET negative == CountValence(day_df, -1, 45)
            neutral == CountValence(day_df, 45, 60)
            positive == CountValence(day_df, 60, 1000)
            most == Max3(negative, neutral, positive)
        IN  /\ positive = most => result.most_frequent = "Positive"
            /\ result.most_frequent = "Positive" => positive = most
            /\ result.most_frequent = "Negative" => negative = most
            /\ result.most_frequent = "Neutral" => neutral = most

\* C3: for a non-empty day, PeakDeviation returns classify_by_valence of the
\* first row, in row order, whose |valence - 5.6| is the largest of the day.
C3_PeakValueIsFirstLargestDeviation ==
    (Analyzed /\ day_df # <<>>) =>
        \E i \in DOMAIN day_df :
            /\ \A j \in DOMAIN day_df : Dev(day_df[j].valence) <= Dev(day_df[i].valence)
            /\ \A j \in 1..(i - 1) : Dev(day_df[j].valence) < Dev(day_df[i].valence)
            /\ result.peak_value = classify_by_valence(Q(day_df[i].valence, 1))

\* two rows of different categories tie for the largest deviation (4.6 and
\* 6.6 are both 1.0 from 5.6) and the first one decides
C3_Witness ==
    /\ Analyzed
    /\ Valence(day_df) = <<46, 56, 66>>
    /\ result.peak_value = "Neutral"

\* C4: for a non-empty day, WeightedAverage returns classify_by_valence of
\* sum(w_i * v_i) / sum(w_i) with w_i = (t_i - t_min)/(t_max - t_min) + 0.5
\* (0.5 for the earliest row, 1.5 for the latest), and of the plain mean
\* when all timestamps are equal; calculate_weighted_average of the feature
\* extractor computes the same mean.
C4_WeightedAverageFormula ==
    (Analyzed /\ day_df # <<>>) =>
        LET n == Len(day_df)
            t_min == SeqMin(Datetime(day_df))
            t_max == SeqMax(Datetime(day_df))
            span == t_max - t_min
            \* w_i * 2 * span
            w2(i) == 2 * (day_df[i].datetime - t_min) + span
            mean ==
                IF span = 0
                THEN Q(SumSeq(Valence(day_df)), n)
                ELSE Q(SumSeq([i \in 1..n |-> w2(i) * day_df[i].valence]),
                       SumSeq([i \in 1..n |-> w2(i)]))
            ml == calculate_weighted_average(day_df)
        IN  /\ result.weighted_average = classify_by_valence(mean)
            /\ ml.num * mean.den = mean.num * ml.den
            /\ span > 0 =>
                 \A i \in 1..n :
                    /\ day_df[i].datetime = t_min => 2 * w2(i) = 1 * (2 * span)
                    /\ day_df[i].datetime = t_max => 2 * w2(i) = 3 * (2 * span)

\* valences 3.0 then 8.0: the later one weighs 1.5, the weighted mean is
\* 6.75 (Positive) while the plain mean is 5.5 (Neutral)
C4_Witness ==
    /\ Analyzed
    /\ Valence(day_df) = <<30, 80>>
    /\ Datetime(day_df) = <<0, 1>>
    /\ result.weighted_average = "Positive"
    /\ result.average_value = "Neutral"

\* C5: for a non-empty day, ClusterMajority counts a row as Negative if its
\* label contains the negative marker, else Positive if it contains the
\* positive marker, else Neutral, and returns the category counted most,
\* Positive winning its ties and Negative winning a Negative/Neutral tie.
C5_ClusterBasedMajority ==
    (Analyzed /\ day_df # <<>>) =>
        LET rows == DOMAIN day_df
            negative == Cardinality({i \in rows : Contains(day_df[i].cluster, NEG)})
            positive == Cardinality({i \in rows : /\ ~Contains(day_df[i].cluster, NEG)
                                                  /\ Contains(day_df[i].cluster, POS)})
            neutral == Len(day_df) - negative - positive
        IN  result.cluster_based =
                IF positive >= negative /\ positive >= neutral THEN "Positive"
                ELSE IF negative >= neutral THEN "Negative"
                ELSE "Neutral"

\* a Negative/Neutral tie, which Negative wins
C5_Witness ==
    /\ Analyzed
    /\ Column(day_df, "cluster") = << <<"chuuritsu">>, <<"1-", "tsuyoi", NEG>> >>
    /\ result.cluster_based = "Negative"

\* the fixed weights, in tenths, from the strongest negative to the strongest
\* positive cluster; 0 for any other label
C6_Weight(cluster) ==
    CASE cluster = <<"1-", "tsuyoi", NEG>> -> -20
      [] cluster = <<"2-", "yowai", NEG>> -> -10
      [] cluster = <<"3-", NEG, "yori-chuuritsu">> -> -3
      [] cluster = <<"4-", POS, "yori-chuuritsu">> -> 3
      [] cluster = <<"5-", "yowai", POS>> -> 10
      [] cluster = <<"6-", "tsuyoi", POS>> -> 20
      [] OTHER -> 0

C7_LatestValueIsGreatestTimestamp ==
    (Analyzed /\ day_df # <<>>) =>
        \E i \in DOMAIN day_df :
            /\ \A j \in DOMAIN day_df : day_df[j].datetime <= day_df[i].datetime
            /\ result.latest_value = classify_by_valence(Q(day_df[i].valence, 1))

\* the latest row is the first of the frame
C7_Witness ==
    /\ Analyzed
    /\ Datetime(day_df) = <<2, 0, 1>>
    /\ Valence(day_df) = <<30, 80, 56>>
    /\ result.latest_value = "Negative"

\* C8: on a day without observations each of the seven strategies, and
\* estimate_emotion_by_peak_value, returns Neutral.
C8_EmptyDayIsNeutral ==
    /\ (Analyzed /\ day_df = <<>>) =>
            \A s \in DOMAIN result : result[s] = "Neutral"
    /\ (call = "estimate_emotion_by_peak_value" /\ day_df = <<>>) =>
            result.estimated_emotion = "Neutral"

C8_Witness ==
    /\ Analyzed
    /\ day_df = <<>>
    /\ DOMAIN result = { "most_frequent", "peak_value", "latest_value", "average_value",
                         "weighted_average", "cluster_based", "weighted_cluster" }
    /\ result.average_value = "Neutral"

\* C18: every row the cluster-based strategies are handed carries the
\* cluster that assign_cluster gives its valence.
C18_ClusterIsDerivedFromValence ==
    Analyzed =>
        \A i \in DOMAIN day_df :
            day_df[i].cluster = assign_cluster(Q(day_df[i].valence, 1))

\* C19: the seven strategies leave the day as it was handed to them: the
\* same rows in the same order, and no column written by a strategy.
C19_StrategiesLeaveTheDayUnchanged ==
    Analyzed =>
        \A i \in DOMAIN day_df : day_df[i].emotion_category = NoValue

-----------------------------------------------------------------------------
(* Properties of the classifier functions (specification SpecClassify);    *)
(* the argument is valence.num hundredths                                  *)

\* C9: classify_by_valence returns Negative for every valence <= 4.5,
\* Neutral for 4.5 < valence <= 6.0 and Positive for valence > 6.0, and the
\* copy of peak_value_estimator.py returns the same category.
C9_ClassifyByValenceClosedUpper ==
    ret.fn = "classify_by_valence" =>
        /\ ret.empathy \in Categories
        /\ ret.empathy = "Negative" <=> valence.num <= 450
        /\ ret.empathy = "Neutral" <=> 450 < valence.num /\ valence.num <= 600
        /\ ret.empathy = "Positive" <=> 600 < valence.num
        /\ ret.peak_value_estimator = ret.empathy

\* 4.51, the next value of the grid above 4.5, is Neutral
C9_Witness ==
    /\ ret.fn = "classify_by_valence"
    /\ valence = Q(451, 10)
    /\ ret.empathy = "Neutral"
    /\ ret.peak_value_estimator = "Neutral"

\* the six clusters in ascending order, as empathy.py names them and as
\* data_handler.py and ruiseki.py name them
EmpathyClusters ==
    << <<"1-", "tsuyoi", NEG>>, <<"2-", "yowai", NEG>>, <<"3-", NEG, "yori-chuuritsu">>,
       <<"4-", POS, "yori-chuuritsu">>, <<"5-", "yowai", POS>>, <<"6-", "tsuyoi", POS>> >>

DashboardClusters ==
    << <<"tsuyoi", NEG>>, <<"yowai", NEG>>, <<NEG, "yori-chuuritsu">>,
       <<POS, "yori-chuuritsu">>, <<"yowai", POS>>, <<"tsuyoi", POS>> >>

\* the ordinal the thresholds 3.5, 4.5, 5.2, 6.0, 7.6 give n hundredths
C10_Ordinal(n) ==
    IF n <= 350 THEN 1
    ELSE IF n <= 450 THEN 2
    ELSE IF n <= 520 THEN 3
    ELSE IF n <= 600 THEN 4
    ELSE IF n <= 760 THEN 5
    ELSE 6

\* C10: assign_cluster maps every valence, inside [1.0, 9.0] or not, to the
\* cluster its ordinal names; the three copies give the same ordinal; a
\* smaller valence never gets a later cluster.
C10_AssignClusterThresholds ==
    ret.fn = "assign_cluster" =>
        LET k == C10_Ordinal(valence.num)
        IN  /\ ret.empathy = EmpathyClusters[k]
            /\ ret.data_handler = DashboardClusters[k]
            /\ ret.ruiseki = DashboardClusters[k]
            /\ \A x \in ClassifyInputs :
                  x.num <= valence.num =>
                     \E j \in 1..k : assign_cluster(x) = EmpathyClusters[j]

\* 9.5 is outside the valence domain and still gets the last cluster
C10_Witness ==
    /\ ret.fn = "assign_cluster"
    /\ valence = Q(950, 10)
    /\ ret.empathy = <<"6-", "tsuyoi", POS>>
    /\ ret.ruiseki = <<"tsuyoi", POS>>

-----------------------------------------------------------------------------
(* Properties of the leave-one-out evaluator (specification SpecLOO) *)

FoldScored == ml_pc \in {"loo", "reported"} /\ fold.fold > 0

\* the classifier of the fold orders its classes as the label encoder does
FoldAligned ==
    \A i \in DOMAIN fold.model_classes :
        fold.model_classes[i] = le_classes(training_df)[i]

\* C1: when the fold has removed the worst-category mass and renormalized,
\* the predicted label is one of the held-out sample's worst categories only
\* if all three scores of the sample are equal.  (Stated for the folds whose
\* classifier orders its classes as the encoder does.)
C1_SuppressionAvoidsWorstSet ==
    (FoldScored /\ fold.renormalized /\ FoldAligned) =>
        LET test_sample == training_df[fold.fold]
        IN  fold.pred_label \in Range(test_sample.worst_categories) =>
                /\ test_sample.positive_score = test_sample.neutral_score
                /\ test_sample.neutral_score = test_sample.negative_score

-----------------------------------------------------------------------------
(* Properties of the category sets (specification SpecScores) *)

Scored == labels.fn = "score_categories"

\* the categories whose score in q is extreme: the highest if highest, else
\* the lowest
ExtremeCategories(q, highest) ==
    {c \in Categories :
        \A d \in Categories :
            IF highest THEN ScoreOf(q, d) <= ScoreOf(q, c)
            ELSE ScoreOf(q, c) <= ScoreOf(q, d)}

\* C11: for every triple of scores, in calculate_accuracy and in
\* prepare_training_data alike, the correct-category set is exactly the set
\* of the categories with the highest score and the worst-category set
\* exactly the set of those with the lowest; neither is empty; when the three
\* scores are equal both are {Negative, Neutral, Positive}.
C11_CategorySetsAreTheExtremes ==
    Scored =>
        \A copy \in {"calculate_accuracy", "prepare_training_data"} :
            LET correct == Range(labels[copy].correct_categories)
                worst == Range(labels[copy].worst_categories)
            IN  /\ correct = ExtremeCategories(scores, TRUE)
                /\ worst = ExtremeCategories(scores, FALSE)
                /\ correct # {} /\ worst # {}
                /\ Len(labels[copy].correct_categories) = Cardinality(correct)
                /\ Len(labels[copy].worst_categories) = Cardinality(worst)
                /\ (scores.positive_score = scores.neutral_score
                      /\ scores.neutral_score = scores.negative_score) =>
                        correct = Categories /\ worst = Categories

\* two categories share the highest score and the third alone is the worst
C11_Witness ==
    /\ Scored
    /\ scores = [positive_score |-> 3, neutral_score |-> 3, negative_score |-> 1]
    /\ labels.calculate_accuracy.correct_categories = <<"Positive", "Neutral">>
    /\ labels.prepare_training_data.worst_categories = <<"Negative">>

-----------------------------------------------------------------------------
(* Properties of the two evaluators (specification SpecEvaluate) *)

Compared == acc_pc = "reported"

FilesAbsent == ~(files.ex_date /\ files.questionnaire)

\* C12: in every compared row and for every strategy, and in every scored
\* fold for the predicted label, match is true iff the estimate is one of the
\* categories with the highest score of the sample (any of several tied ones)
\* and avoid_worst is true iff it is not one of those with the lowest score.
C12_MatchAndAvoidWorstAreMembership ==
    /\ \A i \in DOMAIN comparison_results :
          LET row == comparison_results[i]
          IN  \A a \in Range(algorithms) :
                /\ row.match[a] <=> row.estimate[a] \in ExtremeCategories(row, TRUE)
                /\ row.avoid_worst[a] <=> row.estimate[a] \notin ExtremeCategories(row, FALSE)
    /\ FoldScored =>
          LET test_sample == training_df[fold.fold]
          IN  /\ fold.match <=> fold.pred_label \in ExtremeCategories(test_sample, TRUE)
              /\ fold.avoid_worst <=> fold.pred_label \notin ExtremeCategories(test_sample, FALSE)
              /\ scores_list[fold.fold].match = fold.match
              /\ scores_list[fold.fold].avoid_worst = fold.avoid_worst

\* the three scores tie, Positive is the category shown for the
\* questionnaire, and the estimate Neutral still counts as a match
C12_Witness ==
    /\ Len(comparison_results) = 1
    /\ comparison_results[1].questionnaire = "Positive"
    /\ comparison_results[1].estimate.peak_value = "Neutral"
    /\ comparison_results[1].match.peak_value
    /\ ~comparison_results[1].avoid_worst.peak_value

\* the score of the rows of u (of all rows when u = 0) for the category that
\* pick gives for a row
C13_Total(u, pick(_)) ==
    SumSeq([i \in DOMAIN comparison_results |->
              IF u = 0 \/ comparison_results[i].user_id = u
              THEN ScoreOf(comparison_results[i], pick(comparison_results[i]))
              ELSE 0])

\* ratio is pred / true * 100, and 0 when true is 0
C13_IsRatio(ratio, pred, true) ==
    /\ ratio.kind = "number"
    /\ IF true = 0 THEN ratio.num = 0
       ELSE ratio.num * true = 100 * pred * ratio.den

\* C13: in the report of calculate_accuracy the score ratio of every
\* strategy, overall and for every subject with a compared row, is the total
\* of the scores of the estimated categories over the total of the scores of
\* the questionnaire's categories, times 100, and is 0 when that total is 0.
C13_ScoreRatioGuarded ==
    Compared =>
        LET True(row) == row.questionnaire
            users == {comparison_results[i].user_id : i \in DOMAIN comparison_results}
        IN  /\ DOMAIN report.user_score_comparison = users
            /\ \A a \in Range(algorithms) :
                  LET Pred(row) == row.estimate[a]
                  IN  /\ C13_IsRatio(report.overall[a].ratio,
                                     C13_Total(0, Pred), C13_Total(0, True))
                      /\ \A u \in users :
                            C13_IsRatio(report.user_score_comparison[u][a].ratio,
                                        C13_Total(u, Pred), C13_Total(u, True))

\* the scores of subject 1 are all 0 and its ratio is 0; subject 2 scored
\* 2/1/0 and the average-value estimate Neutral earns 1 of 2, which is also
\* the overall ratio
C13_Witness ==
    /\ Compared
    /\ Len(comparison_results) = 2
    /\ DOMAIN report.user_score_comparison = {1, 2}
    /\ report.user_score_comparison[1].average_value.true_score = 0
    /\ report.user_score_comparison[1].average_value.ratio.num = 0
    /\ report.user_score_comparison[2].average_value.ratio =
          [kind |-> "number", num |-> 100, den |-> 2]
    /\ report.overall.average_value.ratio = [kind |-> "number", num |-> 100, den |-> 2]

\* C15: when ex_date.csv or questionnaire.csv is absent, calculate_accuracy
\* and train_and_evaluate get no further than reporting it: no sample is
\* looked up or scored, no model is fitted, nothing is reported or written,
\* and nothing is raised.
C15_AbsentFilesSkipTheEvaluation ==
    FilesAbsent =>
        /\ acc_pc \in {"idle", "start", "file_not_found"}
        /\ ml_pc \in {"idle", "start", "file_not_found"}
        /\ comparison_results = <<>> /\ cursor = [row |-> 0, day_num |-> 0]
        /\ training_df = <<>> /\ scores_list = <<>> /\ fold.fold = 0 /\ fold.raised = ""
        /\ lookup = "none"
        /\ ~report.printed

\* questionnaire.csv alone is absent and calculate_accuracy has returned
C15_Witness ==
    /\ files = [ex_date |-> TRUE, questionnaire |-> FALSE]
    /\ acc_pc = "file_not_found"
    /\ comparison_results = <<>>

\* C16: a (subject, day) whose lookup misses (no row in the period table, no
\* date column, an empty or unparseable date, nothing recorded or estimated
\* on the date) adds nothing and removes nothing, and the loop goes on to the
\* next one; a (subject, day) that is found adds exactly one sample and keeps
\* the earlier ones.  In calculate_accuracy and in prepare_training_data.
C16_LookupMissSkipsOneSample ==
    [][ /\ cursor' # cursor =>
              /\ acc_pc' \in {"rows", "days"}
              /\ lookup' \in AccuracyMisses \cup {"no_subject_row", "ok", "none"}
              /\ lookup' \in AccuracyMisses \cup {"no_subject_row", "none"} =>
                    comparison_results' = comparison_results
              /\ lookup' = "ok" =>
                    /\ Len(comparison_results') = Len(comparison_results) + 1
                    /\ SubSeq(comparison_results', 1, Len(comparison_results)) = comparison_results
                    /\ comparison_results'[Len(comparison_results')].user_id = cursor'.row
                    /\ comparison_results'[Len(comparison_results')].day_num = cursor'.day_num
              /\ \/ cursor'.row = cursor.row /\ cursor'.day_num = cursor.day_num + 1
                 \/ cursor'.row = cursor.row + 1 /\ cursor'.day_num = 0
        /\ (ml_pc = "prepare" /\ lookup' \in TrainingMisses) =>
              /\ training_df' = training_df
              /\ ml_pc' = "prepare"
        /\ (ml_pc = "prepare" /\ lookup' = "ok") =>
              /\ Len(training_df') = Len(training_df) + 1
              /\ SubSeq(training_df', 1, Len(training_df)) = training_df
              /\ ml_pc' = "prepare"
      ]_vars

\* the first day of the first subject was passed over and the second day
\* has been compared
C16_Witness ==
    /\ cursor = [row |-> 1, day_num |-> 2]
    /\ lookup = "ok"
    /\ Len(comparison_results) = 1
    /\ comparison_results[1].day_num = 2
    /\ acc_pc = "days"

-----------------------------------------------------------------------------
(* Properties of the leave-one-out report (specification SpecLOO) *)

\* C14: in the report of train_and_evaluate the overall score ratio, and the
\* score ratio of every subject, is 0 when the sum of the true scores it
\* divides by is 0.
C14_ZeroTrueScoreGivesRatioZero ==
    ml_pc = "reported" =>
        /\ report.total_true_score = 0 =>
              report.score_ratio.kind = "number" /\ report.score_ratio.num = 0
        /\ \A u \in DOMAIN report.user_scores :
              report.user_scores[u].true_score = 0 =>
                 /\ report.user_scores[u].score_ratio.kind = "number"
                 /\ report.user_scores[u].score_ratio.num = 0

-----------------------------------------------------------------------------
(* Properties of the fetch functions and of the alternate peak estimator   *)
(* (specification SpecFetch)                                               *)

\* the documents whose day, time and valence all parse, in stream order
C17_Parsed == SelectSeq(docs, LAMBDA d : d.parseable /\ d.valence_kind = "number")

\* C17: whichever of the two fetch functions is applied to the stream, it
\* returns (never raising) the frame of exactly the documents whose
\* timestamp and valence parse: a document that does not parse is the only
\* one dropped.
C17_OnlyTheUnparseableObservationIsDropped ==
    fetched \notin {"no", "idle"} =>
        /\ fetched # "raised"
        /\ Len(day_df) = Len(C17_Parsed)
        /\ \A i \in DOMAIN day_df :
              /\ day_df[i].valence = C17_Parsed[i].valence
              /\ day_df[i].datetime = C17_Parsed[i].datetime

\* the rescaled valence 2 * (v - 1) / (9 - 1) - 1, in thousandths, of v tenths
C20_N(v) == (200 * (v - 10)) \div 8 - 1000

-----------------------------------------------------------------------------
(* Properties of the fold's prediction (specification SpecLOO) *)

C24_ZeroedEntryIsTheWorstLabels ==
    (ml_pc \in {"loo", "raised", "reported"} /\ fold.fold > 0) =>
        /\ fold.raised = ""
        /\ fold.model_classes[fold.worst_idx] = training_df[fold.fold].worst_label
        /\ fold.renormalized =>
              fold.pred_label = fold.model_classes[argmax(fold.adjusted_proba)]

-----------------------------------------------------------------------------
(* Properties of the cluster-counting strategies (specification Spec) *)

\* C23: for a non-empty day whose cluster names were derived by
\* assign_cluster, every name carries the negative or the positive marker, no
\* row counts as Neutral, and neither algorithm_most_frequent nor
\* algorithm_cluster_based returns Neutral.
C23_DerivedClustersAreNeverNeutral ==
    (Analyzed /\ ~has_cluster /\ day_df # <<>>) =>
        /\ \A i \in DOMAIN day_df :
              Contains(day_df[i].cluster, NEG) \/ Contains(day_df[i].cluster, POS)
        /\ CountCategory(day_df, "Neutral") = 0
        /\ result.most_frequent # "Neutral"
        /\ result.cluster_based # "Neutral"

\* a day of observations in (4.5, 6.0] only, which the valence thresholds
\* call Neutral, on either side of 5.2
C23_Witness ==
    /\ Analyzed
    /\ ~has_cluster
    /\ Valence(day_df) = <<46, 56, 46>>
    /\ result.average_value = "Neutral"
    /\ result.most_frequent = "Negative"
    /\ result.cluster_based = "Negative"

\* C30: for every day whose cluster names were derived by assign_cluster, the
\* empty day included, algorithm_most_frequent and algorithm_cluster_based
\* return the same category.
C30_MostFrequentEqualsClusterBased ==
    (Analyzed /\ ~has_cluster) =>
        result.most_frequent = result.cluster_based

\* as many negative as positive names, and the valence thresholds would
\* count one row of each category
C30_Witness ==
    /\ Analyzed
    /\ ~has_cluster
    /\ Valence(day_df) = <<30, 56, 80>>
    /\ result.most_frequent = "Positive"
    /\ result.cluster_based = "Positive"

\* C25: every strategy returns the same category for every order of the
\* day's rows, also when two rows tie for the largest |valence - 5.6| or
\* share the latest datetime.
C25_StrategiesIgnoreRowOrder ==
    Analyzed =>
        \A p \in Permutations(DOMAIN day_df) :
            LET df == [i \in DOMAIN day_df |-> day_df[p[i]]]
            IN  /\ algorithm_most_frequent(df) = result.most_frequent
                /\ algorithm_peak_value(df) = result.peak_value
                /\ algorithm_latest_value(df) = {result.latest_value}
                /\ algorithm_average_value(df) = result.average_value
                /\ algorithm_weighted_average(df) = result.weighted_average
                /\ algorithm_cluster_based(df) = result.cluster_based
                /\ algorithm_weighted_cluster(df) = result.weighted_cluster

-----------------------------------------------------------------------------
(* Properties of match, avoid_worst and the scores (specification           *)
(* SpecEvaluate)                                                            *)

C26_ScoresAllEqual(q) ==
    q.positive_score = q.neutral_score /\ q.neutral_score = q.negative_score

\* C26: in every compared row, for every strategy, and in every scored fold,
\* match implies avoid_worst unless the three questionnaire scores of the
\* sample are equal.
C26_MatchImpliesAvoidWorst ==
    /\ \A i \in DOMAIN comparison_results :
          LET row == comparison_results[i]
          IN  \A a \in Range(algorithms) :
                (row.match[a] /\ ~C26_ScoresAllEqual(row)) => row.avoid_worst[a]
    /\ (FoldScored /\ fold.raised = "") =>
          ((fold.match /\ ~C26_ScoresAllEqual(training_df[fold.fold]))
                => fold.avoid_worst)

\* a row of equal scores, where the match is one of the worst categories,
\* followed by a row of scores 2/1/0 whose matching estimate avoids the worst
C26_Witness ==
    /\ Len(comparison_results) = 2
    /\ C26_ScoresAllEqual(comparison_results[1])
    /\ comparison_results[1].match.latest_value
    /\ ~comparison_results[1].avoid_worst.latest_value
    /\ ~C26_ScoresAllEqual(comparison_results[2])
    /\ comparison_results[2].match.latest_value
    /\ comparison_results[2].avoid_worst.latest_value

\* ratio is a number of [0, 100]
C27_InRange(ratio) ==
    ratio.kind = "number" /\ 0 <= ratio.num /\ ratio.num <= 100 * ratio.den

\* the part of C27 about the samples and the sums: the score of the
\* predicted category is at most the true score, sample by sample and summed
C27_PredictedScoreAtMostTrue ==
    /\ \A i \in DOMAIN comparison_results :
          LET row == comparison_results[i]
          IN  \A a \in Range(algorithms) :
                ScoreOf(row, row.estimate[a]) <= ScoreOf(row, row.questionnaire)
    /\ Compared =>
          \A a \in Range(algorithms) :
            /\ report.overall[a].pred_score <= report.overall[a].true_score
            /\ \A u \in DOMAIN report.user_score_comparison :
                  report.user_score_comparison[u][a].pred_score
                      <= report.user_score_comparison[u][a].true_score
    /\ (FoldScored /\ fold.raised = "") => fold.pred_score <= fold.true_score
    /\ ml_pc = "reported" =>
          /\ report.total_pred_score <= report.total_true_score
          /\ \A u \in DOMAIN report.user_scores :
                report.user_scores[u].pred_score <= report.user_scores[u].true_score

\* C27: the score of the predicted category never exceeds the true score of
\* the sample, the summed predicted score never exceeds the summed true
\* score, and every score ratio reported by calculate_accuracy and by
\* train_and_evaluate, overall and per subject, is a number of [0, 100].
C27_ScoreRatioWithinHundred ==
    /\ C27_PredictedScoreAtMostTrue
    /\ Compared =>
          \A a \in Range(algorithms) :
            /\ C27_InRange(report.overall[a].ratio)
            /\ \A u \in DOMAIN report.user_score_comparison :
                  C27_InRange(report.user_score_comparison[u][a].ratio)
    /\ ml_pc = "reported" =>
          /\ C27_InRange(report.score_ratio)
          /\ \A u \in DOMAIN report.user_scores :
                C27_InRange(report.user_scores[u].score_ratio)

-----------------------------------------------------------------------------
(* Properties of the Firebase connection (specification SpecFirebase) *)

\* the calls before call i that registered the app
C22_RegisteredBefore(i) ==
    {j \in 1..(i - 1) : firebase_calls[j].initialize_app = "registered"}

\* C22: over any sequence of connecting calls in one process the app is
\* registered at most once; a call after the registration calls
\* initialize_app no more and returns a client of the registered app; a call
\* whose initialization fails returns None and leaves no app registered, and
\* the call after it tries to initialize again.
C22_InitializedAtMostOnce ==
    /\ Cardinality(C22_RegisteredBefore(Len(firebase_calls) + 1)) <= 1
    /\ firebase_apps \subseteq {DEFAULT_APP}
    /\ \A i \in DOMAIN firebase_calls :
          LET this == firebase_calls[i]
          IN  /\ C22_RegisteredBefore(i) # {} =>
                    /\ ~this.tried
                    /\ this.initialize_app = "not_called"
                    /\ this.returned = Some(DEFAULT_APP)
                    /\ this.apps = {DEFAULT_APP}
              /\ (this.tried /\ this.initialize_app # "registered") =>
                    /\ this.returned = None
                    /\ this.apps = {}
                    /\ i < Len(firebase_calls) => firebase_calls[i + 1].tried
              /\ this.returned = None => this.tried /\ this.apps = {}
              /\ this.initialize_app = "registered" =>
                    this.returned = Some(DEFAULT_APP)

\* a call that fails, the call that registers the app and a call that
\* reuses it
C22_Witness ==
    /\ Len(firebase_calls) = 3
    /\ firebase_calls[1].fn = "initialize_firebase_standalone"
    /\ firebase_calls[1].returned = None
    /\ firebase_calls[2].fn = "initialize_firebase_standalone"
    /\ firebase_calls[2].initialize_app = "registered"
    /\ firebase_calls[3].fn = "initialize_firebase_standalone"
    /\ ~firebase_calls[3].tried
    /\ firebase_calls[3].returned = Some(DEFAULT_APP)

-----------------------------------------------------------------------------
(* Properties of the page views of a session (specification SpecDashboard) *)

C28_Open == {i \in DOMAIN page_views : page_views[i].end_time = None}

\* at the end of a run of main, while no write has failed: the session's
\* view mode is the selected one, the one open page view is the document of
\* that mode the session points to, and every other page view is closed
\* with duration_seconds = end_time - start_time >= 0
C28_AfterRerun ==
    (selected_view # NoValue /\ ~write_failed) =>
        /\ "current_view_mode" \in DOMAIN session_state
        /\ session_state.current_view_mode = selected_view
        /\ "page_view_doc_id" \in DOMAIN session_state
        /\ C28_Open = {session_state.page_view_doc_id}
        /\ page_views[session_state.page_view_doc_id].view_mode = selected_view
        /\ page_views[session_state.page_view_doc_id].start_time
              = session_state.page_view_start
        /\ \A i \in DOMAIN page_views \ C28_Open :
              LET doc == page_views[i]
              IN  /\ Len(doc.duration_seconds) = 1
                  /\ doc.duration_seconds[1] = doc.end_time[1] - doc.start_time
                  /\ doc.duration_seconds[1] >= 0

\* a run of main in which the mode of the run before is selected again
\* creates no document and changes none
C28_Reselect ==
    (selected_view # NoValue /\ selected_view' = selected_view /\ ~write_failed')
        => page_views' = page_views

\* C28: over any sequence of runs of main in one session, as long as the
\* Firestore writes succeed, every run ends with current_view_mode equal to
\* the selected mode and exactly one open page view, the one of the current
\* mode; every page view of a mode that was left has end_time set and
\* duration_seconds = end_time - start_time >= 0; selecting the same mode
\* again creates no document.
C28_OneOpenPageViewPerSession == []C28_AfterRerun /\ [][C28_Reselect]_vars

\* two modes were left, one at once and one after a second, and the first
\* mode is shown again in a new page view
C28_Witness ==
    /\ ~write_failed
    /\ Len(page_views) = 3
    /\ page_views[1].duration_seconds = Some(0)
    /\ page_views[2].duration_seconds = Some(1)
    /\ page_views[3].end_time = None
    /\ page_views[3].view_mode = page_views[1].view_mode
    /\ selected_view = page_views[3].view_mode
    /\ session_state.page_view_doc_id = 3

-----------------------------------------------------------------------------
(* Properties of estimate_missing_durations (specification SpecDurations) *)

\* the end time the estimate is to give row: the start of the earliest page
\* view of the same user and session in df that starts later, or five
\* minutes after the row's start
C29_EstimatedEnd(df, row) ==
    LET later == {df[j].start_time : j \in
                    {k \in DOMAIN df : /\ df[k].user_id = row.user_id
                                       /\ df[k].session_id = row.session_id
                                       /\ df[k].start_time > row.start_time}}
    IN  IF later = {} THEN row.start_time + 300
        ELSE CHOOSE t \in later : \A u \in later : t <= u

\* C29: estimate_missing_durations returns the rows it was given; a row
\* without end_time or duration_seconds gets as end_time the start of the
\* earliest later page view of the same user and session, or its start plus
\* five minutes, a duration_seconds = end_time - start_time > 0 and
\* is_estimated True; a row with both keeps them and gets is_estimated
\* False; the frame handed in is as it was.
C29_MissingDurationsEstimated ==
    estimated_df.called =>
        LET returned == estimated_df.returned
        IN  /\ Len(returned) = Len(page_view_df)
            /\ {returned[i].doc_id : i \in DOMAIN returned} = DOMAIN page_view_df
            /\ \A i \in DOMAIN page_view_df :
                  /\ page_view_df[i].doc_id = i
                  /\ page_view_df[i].is_estimated = None
            /\ \A i \in DOMAIN returned :
                  LET out == returned[i]
                      row == page_view_df[out.doc_id]
                      end_time == C29_EstimatedEnd(page_view_df, row)
                  IN  /\ out.user_id = row.user_id
                      /\ out.session_id = row.session_id
                      /\ out.start_time = row.start_time
                      /\ IF row.end_time = None \/ row.duration_seconds = None
                         THEN /\ out.end_time = Some(end_time)
                              /\ out.duration_seconds = Some(end_time - row.start_time)
                              /\ end_time - row.start_time > 0
                              /\ out.is_estimated = Some(TRUE)
                         ELSE /\ out.end_time = row.end_time
                              /\ out.duration_seconds = row.duration_seconds
                              /\ out.is_estimated = Some(FALSE)

\* three page views of one session, fetched out of order: the open one at 0
\* ends when the closed one at 60 starts, not at 120; the closed one is kept;
\* the open one at 120 has no later view and gets five minutes
C29_Witness ==
    /\ estimated_df.called
    /\ Len(page_view_df) = 3
    /\ \A i \in 1..3 : page_view_df[i].user_id = 1 /\ page_view_df[i].session_id = 1
    /\ page_view_df[1].start_time = 0 /\ page_view_df[1].end_time = None
    /\ page_view_df[2].start_time = 120 /\ page_view_df[2].end_time = None
    /\ page_view_df[3].start_time = 60 /\ page_view_df[3].end_time = Some(90)
    /\ estimated_df.returned[1].doc_id = 1
    /\ estimated_df.returned[1].end_time = Some(60)
    /\ estimated_df.returned[2].doc_id = 3
    /\ estimated_df.returned[2].is_estimated = Some(FALSE)
    /\ estimated_df.returned[3].end_time = Some(420)
    /\ estimated_df.returned[3].duration_seconds = Some(300)

====
